---- MODULE Spec2Model ----
(***************************************************************************)
(* Model of the lexgen runtime (crates/lexgen_util/src/lib.rs) and of the  *)
(* dispatch code emitted by crates/lexgen/src/dfa/codegen.rs.              *)
(*                                                                         *)
(* A behaviour fixes one automaton (a configuration) and one input string, *)
(* then runs the generated `Iterator::next` for successive requests.  The  *)
(* generated code is executed straight from the DFA tables through the     *)
(* operators below, which mirror the code generator's decisions (which     *)
(* states are inlined, how states are renumbered, in which order the arms  *)
(* of `match char` are emitted, when a search table is used).              *)
(***************************************************************************)
EXTENDS Integers, Sequences, FiniteSets, TLC

VARIABLES
    cfg,                  \* index of the automaton the lexer was generated from
    input,                \* Lexer::input, as a sequence of code points
    __state,              \* Lexer::__state
    __done,               \* Lexer::__done
    __initial_state,      \* Lexer::__initial_state
    iter,                 \* Lexer::iter, as the number of characters already yielded
    current_match_start,  \* Lexer::current_match_start
    current_match_end,    \* Lexer::current_match_end
    last_match,           \* Lexer::last_match
    pc,                   \* position inside the generated `next`
    cur,                  \* DFA state whose (possibly inlined) code is running
    ctl,                  \* the candidate chain being evaluated (test_right_ctxs)
    rc,                   \* locals of the running right-context function
    fn,                   \* semantic action function about to be / being called
    ret,                  \* value returned by the semantic action
    result,               \* value returned by the last `next` request
    hist,                 \* history: bookkeeping about the current scan attempt
    ref,                  \* the un-rewritten (table-walking) lexer, kept in step
    obs                   \* the last value a caller got from a function called directly

vars == <<cfg, input, __state, __done, __initial_state, iter, current_match_start,
          current_match_end, last_match, pc, cur, ctl, rc, fn, ret, result, hist, ref,
          obs>>

\* Longest input string enumerated.
MaxLen == 3

\* codegen.rs: const MAX_GUARD_SIZE
MAX_GUARD_SIZE == 9

(***************************************************************************)
(* The DFA data model (State, Trans, AcceptingState).                      *)
(***************************************************************************)
NoCtx == 0 - 1

\* Trans::Trans(StateIdx(s))
T(s) == [k |-> "Trans", to |-> s, acc |-> <<>>]
\* Trans::Accept(accepting_states)
A(cands) == [k |-> "Accept", to |-> 0, acc |-> cands]
\* Option::None for any_transition / end_of_input_transition
NoTrans == [k |-> "None", to |-> 0, acc |-> <<>>]

\* AcceptingState { value, right_ctx }
Cand(f, r) == [value |-> f, right_ctx |-> r]

\* State { initial, char_transitions, range_transitions, any_transition,
\*         end_of_input_transition, accepting }
DState(ini, chars, ranges, any, eoi, acc) ==
    [initial |-> ini, char_transitions |-> chars, range_transitions |-> ranges,
     any_transition |-> any, end_of_input_transition |-> eoi, accepting |-> acc]

Ch(c, t) == [ch |-> c, next |-> t]
Rg(s, e, t) == [start |-> s, end |-> e, value |-> t]

\* A right-context DFA state: transitions carry plain state indices.
NoState == 0 - 1
RState(chars, ranges, any, eoi, acc) ==
    [char_transitions |-> chars, range_transitions |-> ranges,
     any_transition |-> any, end_of_input_transition |-> eoi, accepting |-> acc]

(***************************************************************************)
(* Automata the lexer is generated from.  Characters are code points:      *)
(* 32 ' ', 34 '"', 97 'a', 98 'b', 99 'c', 233 U+00E9 (two bytes).         *)
(***************************************************************************)

\* rule Init { "\u{e9}" => f0,  "\u{e9}aa" => f1 }
CfgMunch ==
    [states |-> <<
        DState(TRUE, <<Ch(233, T(1))>>, <<>>, NoTrans, NoTrans, <<>>),
        DState(FALSE, <<Ch(97, T(2))>>, <<>>, NoTrans, NoTrans, <<Cand(0, NoCtx)>>),
        DState(FALSE, <<Ch(97, A(<<Cand(1, NoCtx)>>))>>, <<>>, NoTrans, NoTrans, <<>>)>>,
     rule_states |-> <<0>>,
     actions |-> <<"Fallible", "Simple">>,
     right_ctx |-> <<>>,
     alphabet |-> {97, 233}]

\* rule Init { ['a'-'b']+ 'c' => f0,  ' ' => continue (f1) }
CfgLoop ==
    [states |-> <<
        DState(TRUE, <<Ch(32, A(<<Cand(1, NoCtx)>>))>>, <<Rg(97, 98, T(1))>>,
               NoTrans, NoTrans, <<>>),
        DState(FALSE, <<Ch(99, A(<<Cand(0, NoCtx)>>))>>, <<Rg(97, 98, T(1))>>,
               NoTrans, NoTrans, <<>>)>>,
     rule_states |-> <<0>>,
     actions |-> <<"Simple", "None">>,
     right_ctx |-> <<>>,
     alphabet |-> {32, 97, 99}]

\* rule Init { 'a' > 'b' => f0,  'a' > ['a'-'b'] 'c' => f2,  'a' => f1,
\*             'a' > ('a' | $) => f5,  "ab" => f3,  'c' > ('a' | $) => f4 }
CfgRightCtx ==
    [states |-> <<
        DState(TRUE, <<Ch(97, T(1)), Ch(99, A(<<Cand(4, 2)>>))>>, <<>>,
               NoTrans, NoTrans, <<>>),
        DState(FALSE, <<Ch(98, A(<<Cand(3, NoCtx)>>))>>, <<>>, NoTrans, NoTrans,
               <<Cand(0, 0), Cand(2, 1), Cand(1, NoCtx), Cand(5, 2)>>)>>,
     rule_states |-> <<0>>,
     actions |-> <<"Infallible", "Simple", "Simple", "Simple", "Simple", "Simple">>,
     right_ctx |-> <<
        \* 'b'
        <<RState(<<Ch(98, 1)>>, <<>>, NoState, NoState, <<>>),
          RState(<<>>, <<>>, NoState, NoState, <<Cand(0, NoCtx)>>)>>,
        \* ['a'-'b'] 'c'
        <<RState(<<>>, <<Rg(97, 98, 1)>>, NoState, NoState, <<>>),
          RState(<<Ch(99, 2)>>, <<>>, NoState, NoState, <<>>),
          RState(<<>>, <<>>, NoState, NoState, <<Cand(0, NoCtx)>>)>>,
        \* 'a' | $
        <<RState(<<Ch(97, 1)>>, <<>>, NoState, 1, <<>>),
          RState(<<>>, <<>>, NoState, NoState, <<Cand(0, NoCtx)>>)>>
        >>,
     alphabet |-> {97, 98, 99}]

\* rule Init   { '"' => f0 (user action),  'a'+ => f1 }
\* rule String { '"' => f2 (user action),  _ => continue (f3) }
\* rule Skip   { 'a'* => f4 (user action) }
CfgRuleSets ==
    [states |-> <<
        DState(TRUE, <<Ch(34, A(<<Cand(0, NoCtx)>>)), Ch(97, T(1))>>, <<>>,
               NoTrans, NoTrans, <<>>),
        DState(FALSE, <<Ch(97, T(1))>>, <<>>, NoTrans, NoTrans, <<Cand(1, NoCtx)>>),
        DState(FALSE, <<Ch(34, A(<<Cand(2, NoCtx)>>))>>, <<>>,
               A(<<Cand(3, NoCtx)>>), NoTrans, <<>>),
        DState(FALSE, <<Ch(97, T(4))>>, <<>>, NoTrans, NoTrans, <<Cand(4, NoCtx)>>),
        DState(FALSE, <<Ch(97, T(4))>>, <<>>, NoTrans, NoTrans, <<Cand(4, NoCtx)>>)>>,
     rule_states |-> <<0, 2, 3>>,
     actions |-> <<"Fallible", "Simple", "Fallible", "None", "Infallible">>,
     right_ctx |-> <<>>,
     alphabet |-> {34, 97}]

\* rule Init { 'a'* => f0,  'b' $ => f1,  'c' _ => f2 }
CfgEoiAny ==
    [states |-> <<
        DState(TRUE, <<Ch(97, T(3)), Ch(98, T(1)), Ch(99, T(2))>>, <<>>,
               NoTrans, NoTrans, <<Cand(0, NoCtx)>>),
        DState(FALSE, <<>>, <<>>, NoTrans, A(<<Cand(1, NoCtx)>>), <<>>),
        DState(FALSE, <<>>, <<>>, A(<<Cand(2, NoCtx)>>), NoTrans, <<>>),
        DState(FALSE, <<Ch(97, T(3))>>, <<>>, NoTrans, NoTrans, <<Cand(0, NoCtx)>>)>>,
     rule_states |-> <<0>>,
     actions |-> <<"Infallible", "Simple", "Simple">>,
     right_ctx |-> <<>>,
     alphabet |-> {97, 98, 99}]

\* rule Init { 'a' > 'b' => f0,  'b' ['a'-'b']* _ => f2,  'b' ['a'-'b']* $ > 'b' => f4,
\*             ['a'-'c'] => f1,  _ 'd'* => f3 }
\* 'a' and 'b' have an exact-character transition and lie in the range as well.
CfgPrecedence ==
    [states |-> <<
        DState(TRUE, <<Ch(97, A(<<Cand(0, 0)>>)), Ch(98, T(1))>>,
               <<Rg(97, 99, A(<<Cand(1, NoCtx)>>))>>, T(2), NoTrans, <<>>),
        DState(FALSE, <<>>, <<Rg(97, 98, T(1))>>, A(<<Cand(2, NoCtx)>>),
               A(<<Cand(4, 0)>>), <<>>),
        DState(FALSE, <<Ch(100, T(2))>>, <<>>, NoTrans, NoTrans, <<Cand(3, NoCtx)>>)>>,
     rule_states |-> <<0>>,
     actions |-> <<"Simple", "Simple", "Simple", "Simple", "Simple">>,
     right_ctx |-> <<
        \* 'b'
        <<RState(<<Ch(98, 1)>>, <<>>, NoState, NoState, <<>>),
          RState(<<>>, <<>>, NoState, NoState, <<Cand(0, NoCtx)>>)>>
        >>,
     alphabet |-> {97, 98, 99, 100}]

\* rule Init { 'b' $ ('c' => f1 | => f0),  'a'+ => f2 }: the end-of-input transition
\* of state 1 goes on to state 2, which has state 1 as its one predecessor.
CfgEoiTrans ==
    [states |-> <<
        DState(TRUE, <<Ch(97, T(3)), Ch(98, T(1))>>, <<>>, NoTrans, NoTrans, <<>>),
        DState(FALSE, <<>>, <<>>, NoTrans, T(2), <<>>),
        DState(FALSE, <<Ch(99, A(<<Cand(1, NoCtx)>>))>>, <<>>, NoTrans, NoTrans,
               <<Cand(0, NoCtx)>>),
        DState(FALSE, <<Ch(97, T(3))>>, <<>>, NoTrans, NoTrans, <<Cand(2, NoCtx)>>)>>,
     rule_states |-> <<0>>,
     actions |-> <<"Simple", "Simple", "Simple">>,
     right_ctx |-> <<>>,
     alphabet |-> {97, 98}]

\* rule Init { ['A'-'Z' 'a'-'z' '_'] ['A'-'Z' 'a'-'z' '0'-'9' '_']* => f0 (Identifier),
\*             ' ' => continue (f1) }: 48..57 digits, 65..90 and 97..122 letters, 95 '_'
CfgIdent ==
    [states |-> <<
        DState(TRUE, <<Ch(32, A(<<Cand(1, NoCtx)>>)), Ch(95, T(1))>>,
               <<Rg(65, 90, T(1)), Rg(97, 122, T(1))>>, NoTrans, NoTrans, <<>>),
        DState(FALSE, <<Ch(95, T(1))>>,
               <<Rg(48, 57, T(1)), Rg(65, 90, T(1)), Rg(97, 122, T(1))>>,
               NoTrans, NoTrans, <<Cand(0, NoCtx)>>)>>,
     rule_states |-> <<0>>,
     actions |-> <<"Simple", "None">>,
     right_ctx |-> <<>>,
     alphabet |-> {32, 49, 97}]

\* rule Init { 'a' => f2,  "aa" > 'b' => f0,  "aac" => f1 }: the accepting state 2
\* has a guarded candidate only.
CfgGuardedOnly ==
    [states |-> <<
        DState(TRUE, <<Ch(97, T(1))>>, <<>>, NoTrans, NoTrans, <<>>),
        DState(FALSE, <<Ch(97, T(2))>>, <<>>, NoTrans, NoTrans, <<Cand(2, NoCtx)>>),
        DState(FALSE, <<Ch(99, A(<<Cand(1, NoCtx)>>))>>, <<>>, NoTrans, NoTrans,
               <<Cand(0, 0)>>)>>,
     rule_states |-> <<0>>,
     actions |-> <<"Simple", "Simple", "Simple">>,
     right_ctx |-> <<
        \* 'b'
        <<RState(<<Ch(98, 1)>>, <<>>, NoState, NoState, <<>>),
          RState(<<>>, <<>>, NoState, NoState, <<Cand(0, NoCtx)>>)>>
        >>,
     alphabet |-> {97, 98, 99}]

\* rule Init { 'a' > "bc" => f0 }: the right context goes through a state that is
\* not accepting on a character.
CfgRightCtxSeq ==
    [states |-> <<
        DState(TRUE, <<Ch(97, T(1))>>, <<>>, NoTrans, NoTrans, <<>>),
        DState(FALSE, <<>>, <<>>, NoTrans, NoTrans, <<Cand(0, 0)>>)>>,
     rule_states |-> <<0>>,
     actions |-> <<"Simple">>,
     right_ctx |-> <<
        \* "bc"
        <<RState(<<Ch(98, 1)>>, <<>>, NoState, NoState, <<>>),
          RState(<<Ch(99, 2)>>, <<>>, NoState, NoState, <<>>),
          RState(<<>>, <<>>, NoState, NoState, <<Cand(0, NoCtx)>>)>>
        >>,
     alphabet |-> {97, 98, 99}]

\* rule Init { ('b' $ | 'c') ('d' => f1 | => f0) }: the end-of-input transition of
\* state 1 goes on to state 2, which has the two predecessors 0 and 1.
CfgEoiJoin ==
    [states |-> <<
        DState(TRUE, <<Ch(98, T(1)), Ch(99, T(2))>>, <<>>, NoTrans, NoTrans, <<>>),
        DState(FALSE, <<>>, <<>>, NoTrans, T(2), <<>>),
        DState(FALSE, <<Ch(100, A(<<Cand(1, NoCtx)>>))>>, <<>>, NoTrans, NoTrans,
               <<Cand(0, NoCtx)>>)>>,
     rule_states |-> <<0>>,
     actions |-> <<"Simple", "Simple">>,
     right_ctx |-> <<>>,
     alphabet |-> {98, 99, 100}]

\* An automaton whose start state carries a self-loop and has no other
\* predecessor: state 0 --'a'--> state 0, state 0 --'b'--> accept f0.
CfgStartSelfLoop ==
    [states |-> <<
        DState(TRUE, <<Ch(97, T(0)), Ch(98, A(<<Cand(0, NoCtx)>>))>>, <<>>,
               NoTrans, NoTrans, <<>>)>>,
     rule_states |-> <<0>>,
     actions |-> <<"Simple">>,
     right_ctx |-> <<>>,
     alphabet |-> {97, 98}]

\* An automaton whose start state lies on a cycle: state 0 --'a'--> state 1,
\* state 1 --['0'-'9']--> accept f0, state 1 --any other--> state 0.
CfgStartCycle ==
    [states |-> <<
        DState(TRUE, <<Ch(97, T(1))>>, <<>>, NoTrans, NoTrans, <<>>),
        DState(FALSE, <<>>, <<Rg(48, 57, A(<<Cand(0, NoCtx)>>))>>, T(0), NoTrans, <<>>)>>,
     rule_states |-> <<0>>,
     actions |-> <<"Simple">>,
     right_ctx |-> <<>>,
     alphabet |-> {48, 97}]

\* An automaton whose start state carries a self-loop and has a second
\* predecessor: state 0 --'a'--> state 0, state 0 --['b'-'c']--> state 1,
\* state 1 --'a'--> state 0, state 1 --'b'--> accept f0.
CfgStartJoin ==
    [states |-> <<
        DState(TRUE, <<Ch(97, T(0))>>, <<Rg(98, 99, T(1))>>, NoTrans, NoTrans, <<>>),
        DState(FALSE, <<Ch(97, T(0)), Ch(98, A(<<Cand(0, NoCtx)>>))>>, <<>>,
               NoTrans, NoTrans, <<>>)>>,
     rule_states |-> <<0>>,
     actions |-> <<"Simple">>,
     right_ctx |-> <<>>,
     alphabet |-> {97, 98}]

Configs == <<CfgMunch, CfgLoop, CfgRightCtx, CfgRuleSets, CfgEoiAny, CfgPrecedence,
             CfgEoiTrans, CfgIdent, CfgGuardedOnly, CfgRightCtxSeq, CfgEoiJoin,
             CfgStartSelfLoop, CfgStartCycle, CfgStartJoin>>

\* generate_right_ctx_state_char_arms emits `#pat => self.state = #next_state` for the
\* characters that lead to a state that is not accepting, inside
\* `fn NAME<I>(mut input: I) -> bool`, which has no `self`: the function of a
\* right-context automaton is accepted by the compiler only without such an arm.
right_ctx_fn_compiles(dfa) ==
    \A s \in DOMAIN dfa : \A i \in DOMAIN dfa[s].char_transitions :
        dfa[dfa[s].char_transitions[i].next + 1].accepting # <<>>

\* The generated lexer of a configuration compiles.
lexer_compiles(c) ==
    \A r \in DOMAIN Configs[c].right_ctx : right_ctx_fn_compiles(Configs[c].right_ctx[r])

\* The input "ab 12cd".
AbSpace12cd == <<97, 98, 32, 49, 50, 99, 100>>

\* Inputs longer than the enumerated ones a lexer is also run on.
LongInputs(c) == IF Configs[c] = CfgIdent THEN {AbSpace12cd} ELSE {}

\* The automaton of this behaviour and its parts.
Dfa == Configs[cfg]
NStates == Len(Dfa.states)
StateIdxs == 0 .. (NStates - 1)
St(s) == Dfa.states[s + 1]
Rules == 1 .. Len(Dfa.rule_states)
RcDfa(r) == Dfa.right_ctx[r + 1]
RcSt(r, s) == RcDfa(r)[s + 1]

\* Strings over a set of characters, up to a length.
Strings(alpha, n) == UNION {[1 .. k -> alpha] : k \in 0 .. n}

Min(S) == CHOOSE x \in S : \A y \in S : x <= y

(***************************************************************************)
(* Positions (Loc) and the character cursor.                               *)
(***************************************************************************)
Loc(l, c, b) == [line |-> l, col |-> c, byte_idx |-> b]

\* Loc::ZERO
ZERO == Loc(0, 0, 0)

\* char::len_utf8
len_utf8(c) == IF c < 128 THEN 1 ELSE IF c < 2048 THEN 2 ELSE IF c < 65536 THEN 3 ELSE 4

\* UnicodeWidthChar::width(char).unwrap_or(1): None for control characters,
\* Some(0) for combining marks (U+0301), Some(2) for wide CJK (U+4E2D), else Some(1).
width_unwrap_or_1(c) ==
    IF c < 32 \/ (c >= 127 /\ c < 160) THEN 1
    ELSE IF c = 769 THEN 0
    ELSE IF c = 20013 THEN 2
    ELSE 1

\* A faulty advance: a tab is counted by its display width, like any character.
advance_tab_by_width(loc, c) ==
    [byte_idx |-> loc.byte_idx + len_utf8(c),
     line |-> IF c = 10 THEN loc.line + 1 ELSE loc.line,
     col |-> IF c = 10 THEN 0 ELSE loc.col + width_unwrap_or_1(c)]

\* Lexer::next, the Some(char) branch: the new current_match_end
advance(loc, c) ==
    [byte_idx |-> loc.byte_idx + len_utf8(c),
     line |-> IF c = 10 THEN loc.line + 1 ELSE loc.line,
     col |-> IF c = 10 THEN 0
             ELSE IF c = 9 THEN loc.col + 4
             ELSE loc.col + width_unwrap_or_1(c)]

RECURSIVE ByteLen(_)
\* str::len of a sequence of characters
ByteLen(s) == IF s = <<>> THEN 0 ELSE len_utf8(Head(s)) + ByteLen(Tail(s))

\* A faulty cursor: the byte offset taken for a number of characters.
chars_from_char_index(inp, byte_idx) == byte_idx

\* self.input[byte_idx..].chars(): the cursor that yields the input from a byte
\* offset on, as the number of characters that lie before the offset
chars_from(inp, byte_idx) ==
    CHOOSE k \in 0 .. Len(inp) : ByteLen(SubSeq(inp, 1, k)) = byte_idx

\* A faulty reset_match: the match start is kept.
reset_match_keeps_start(match_start, match_end) == match_start

\* Lexer::reset_match: the new current_match_start
reset_match(match_start, match_end) == match_end

\* A faulty peek: the character is taken out of the iterator.
peek_consuming(inp, it) ==
    [out |-> IF it < Len(inp) THEN inp[it + 1] ELSE 0 - 1,
     iter |-> IF it < Len(inp) THEN it + 1 ELSE it]

\* Lexer::peek, `self.iter.peek().copied()`: the character returned (-1 for None)
\* and the number of characters the iterator has yielded after the call
peek(inp, it) ==
    [out |-> IF it < Len(inp) THEN inp[it + 1] ELSE 0 - 1,
     iter |-> it]

\* Lexer::match_: &self.input[match_start.byte_idx..match_end.byte_idx]
match_(inp, match_start, match_end) ==
    SubSeq(inp, chars_from(inp, match_start.byte_idx) + 1,
           chars_from(inp, match_end.byte_idx))

\* A faulty match_loc: the start lost, as after reset_match.
match_loc_collapsed(match_start, match_end) == <<match_end, match_end>>

\* Lexer::match_loc
match_loc(match_start, match_end) == <<match_start, match_end>>

\* Option::None / Some((match_start, semantic_action, match_end)) of last_match
None == [some |-> FALSE, start |-> ZERO, fn |-> 0, end |-> ZERO]
Some(match_start, semantic_action, match_end) ==
    [some |-> TRUE, start |-> match_start, fn |-> semantic_action, end |-> match_end]

\* A faulty reset: the remembered candidate is kept.
reset_accepting_state_keeps(last) == last

\* Lexer::reset_accepting_state: `self.last_match = None`
reset_accepting_state(last) == None

\* A faulty backtrack: the flag of a read end-of-input is left as it is.
done_kept_by_backtrack(done) == done

\* Lexer::backtrack, the Some arm: `self.__done = false`
done_after_backtrack(done) == FALSE

\* A faulty error location: the position reached, not the start of the match.
invalid_token_at_match_end(match_start, match_end) == match_end

\* Lexer::backtrack, the None arm: the location put into the InvalidToken error
invalid_token_location(match_start, match_end) == match_start

(***************************************************************************)
(* Decisions of the code generator.                                        *)
(***************************************************************************)
IsTransTo(t, s) == t.k = "Trans" /\ t.to = s

\* State::predecessors: the states with a transition into s
predecessors(s) ==
    {p \in StateIdxs :
        \/ \E i \in DOMAIN St(p).char_transitions :
              IsTransTo(St(p).char_transitions[i].next, s)
        \/ \E i \in DOMAIN St(p).range_transitions :
              IsTransTo(St(p).range_transitions[i].value, s)
        \/ IsTransTo(St(p).any_transition, s)
        \/ IsTransTo(St(p).end_of_input_transition, s)}

\* generate_state_arms: `if state.predecessors.len() == 1 && !state.initial { continue; }`
has_no_arm(s) == Cardinality(predecessors(s)) = 1 /\ ~St(s).initial

\* call sites: `if states[next_state].predecessors.len() == 1 { generate_state_arm(..) }`
inlined_at_caller(s) == Cardinality(predecessors(s)) = 1

RECURSIVE ascending(_)
\* The elements of a set of state indices in ascending order.
ascending(S) == IF S = {} THEN <<>> ELSE <<Min(S)>> \o ascending(S \ {Min(S)})

\* state_chars / state_ranges: the destinations of the go-to-state transitions on
\* characters and on ranges, one arm for each
char_targets(s) ==
    {St(s).char_transitions[i].next.to :
        i \in {j \in DOMAIN St(s).char_transitions :
                  St(s).char_transitions[j].next.k = "Trans"}}

range_targets(s) ==
    {St(s).range_transitions[i].value.to :
        i \in {j \in DOMAIN St(s).range_transitions :
                  St(s).range_transitions[j].value.k = "Trans"}}

\* generate_state_arm: the states whose right-hand side it generates, in order:
\* the wildcard transition (default_action), then the arms of the characters,
\* then the arms of the ranges
call_sites(s) ==
    (IF St(s).any_transition.k = "Trans" THEN <<St(s).any_transition.to>> ELSE <<>>)
        \o ascending(char_targets(s)) \o ascending(range_targets(s))

RECURSIVE spliced_within(_, _)
\* The states whose code generate_state_arm(s) splices in, directly or through
\* spliced states, in at most n nested calls.
spliced_within(s, n) ==
    IF n = 0 THEN {}
    ELSE LET direct == {t \in StateIdxs :
                           /\ \E i \in DOMAIN call_sites(s) : call_sites(s)[i] = t
                           /\ inlined_at_caller(t)}
         IN  direct \cup UNION {spliced_within(t, n - 1) : t \in direct}

\* generate_state_arms returns: no state is spliced into its own code.
code_generation_returns == \A s \in StateIdxs : s \notin spliced_within(s, NStates)

\* The automata the lexers are run on are built from rules: state 0 is entered
\* through the dispatch on __state only, no transition leads into it.  (The code
\* generator is also run on automata with such transitions.)
state_0_entered_by_dispatch_only == predecessors(0) = {}

\* CgCtx::n_inlined_states
n_inlined_states == Cardinality({s \in StateIdxs : has_no_arm(s)})

\* CgCtx::renumber_state: dense index, skipping the states without an arm
renumber_state(s) == s - Cardinality({t \in StateIdxs : t < s /\ has_no_arm(t)})

\* generate_state_arms: pattern of the arm of state s matches the value v
\* (`_` for the arm whose new index is n_states - n_inlined - 1)
arm_matches(s, v) ==
    /\ ~has_no_arm(s)
    /\ \/ renumber_state(s) = v
       \/ renumber_state(s) = NStates - n_inlined_states - 1

\* `match self.0.__state { arms }`: the state whose arm runs, arms in emission order
dispatch(v) == Min({s \in StateIdxs : arm_matches(s, v)})

\* inclusive_range_contains
inclusive_range_contains(x, range_start, range_end) ==
    IF range_start = range_end THEN x = range_start
    ELSE range_start <= x /\ x <= range_end

RECURSIVE binary_search_by(_, _, _, _)
\* slice::binary_search_by with the comparator of the emitted `binary_search`
\* (left and right are 0-based, right exclusive)
binary_search_by(c, table, left, right) ==
    IF left >= right THEN FALSE
    ELSE LET mid == left + ((right - left) \div 2)
             e == table[mid + 1]
             ord == IF c > e.start THEN (IF c <= e.end THEN "Equal" ELSE "Less")
                    ELSE IF c = e.start THEN "Equal" ELSE "Greater"
         IN  IF ord = "Equal" THEN TRUE
             ELSE IF ord = "Less" THEN binary_search_by(c, table, mid + 1, right)
             ELSE binary_search_by(c, table, left, mid)

\* A faulty binary_search: the search leaves out the first entry of the table.
binary_search_from_second(c, table) == binary_search_by(c, table, 1, Len(table))

\* the emitted `fn binary_search(c, table)`
binary_search(c, table) == binary_search_by(c, table, 0, Len(table))

\* A faulty choice of guard: a table already for MAX_GUARD_SIZE ranges.
guard_kind_at_size(ranges) ==
    IF Len(ranges) >= MAX_GUARD_SIZE THEN "binary_search" ELSE "or"

\* `if ranges.len() > MAX_GUARD_SIZE`: which guard is emitted for the ranges of one
\* destination
guard_kind(ranges) ==
    IF Len(ranges) > MAX_GUARD_SIZE THEN "binary_search" ELSE "or"

\* the guard of a merged range arm: a search table above MAX_GUARD_SIZE ranges,
\* a chain of `||` otherwise
range_guard(ranges, x) ==
    IF guard_kind(ranges) = "binary_search" THEN binary_search(x, ranges)
    ELSE \E i \in DOMAIN ranges :
            inclusive_range_contains(x, ranges[i].start, ranges[i].end)

\* A faulty order of arms: the range arms are emitted before the character arms.
state_char_arms_ranges_first(s, c) ==
    LET cs == St(s).char_transitions
        rs == St(s).range_transitions
        in_range == {i \in DOMAIN rs : inclusive_range_contains(c, rs[i].start, rs[i].end)}
        on_char == {i \in DOMAIN cs : cs[i].ch = c}
    IN  IF in_range # {} THEN rs[Min(in_range)].value
        ELSE IF on_char # {} THEN cs[Min(on_char)].next
        ELSE NoTrans

\* generate_state_char_arms: the transition of the first arm of `match char`
\* that matches c, NoTrans when it is the `_` arm
state_char_arms(s, c) ==
    LET cs == St(s).char_transitions
        rs == St(s).range_transitions
        acc_chars == {i \in DOMAIN cs : cs[i].next.k = "Accept" /\ cs[i].ch = c}
        state_chars == {n \in StateIdxs :
                          \E i \in DOMAIN cs : cs[i].next = T(n) /\ cs[i].ch = c}
        acc_ranges == {i \in DOMAIN rs :
                          /\ rs[i].value.k = "Accept"
                          /\ inclusive_range_contains(c, rs[i].start, rs[i].end)}
        ranges_to(n) == SelectSeq(rs, LAMBDA r : r.value = T(n))
        state_ranges == {n \in StateIdxs :
                           ranges_to(n) # <<>> /\ range_guard(ranges_to(n), c)}
    IN  IF acc_chars # {} THEN cs[Min(acc_chars)].next
        ELSE IF state_chars # {} THEN T(Min(state_chars))
        ELSE IF acc_ranges # {} THEN rs[Min(acc_ranges)].value
        ELSE IF state_ranges # {} THEN T(Min(state_ranges))
        ELSE NoTrans

(***************************************************************************)
(* The emitted right-context functions.                                    *)
(***************************************************************************)
RcAccepting(r, s) == RcSt(r, s).accepting # <<>>

\* generate_right_ctx_state_char_arms: what the first matching arm of `match char`
\* does: "true" (return true), a state index (state = n), or NoState for `_`
right_ctx_state_char_arms(r, s, c) ==
    LET cs == RcSt(r, s).char_transitions
        rs == RcSt(r, s).range_transitions
        state_chars == {cs[i].next : i \in {j \in DOMAIN cs :
                          cs[j].ch = c /\ ~RcAccepting(r, cs[j].next)}}
        accept_chars == {i \in DOMAIN cs : cs[i].ch = c /\ RcAccepting(r, cs[i].next)}
        ranges_to(n) == SelectSeq(rs, LAMBDA x : x.value = n)
        state_ranges == {n \in 0 .. (Len(RcDfa(r)) - 1) :
                           /\ ~RcAccepting(r, n)
                           /\ ranges_to(n) # <<>>
                           /\ range_guard(ranges_to(n), c)}
        accept_ranges == SelectSeq(rs, LAMBDA x : RcAccepting(r, x.value))
    IN  IF state_chars # {} THEN [out |-> "run", state |-> Min(state_chars)]
        ELSE IF accept_chars # {} THEN [out |-> "true", state |-> s]
        ELSE IF state_ranges # {} THEN [out |-> "run", state |-> Min(state_ranges)]
        ELSE IF accept_ranges # <<>> /\ range_guard(accept_ranges, c)
             THEN [out |-> "true", state |-> s]
        ELSE [out |-> "default", state |-> s]

\* One turn of the `loop { match state { .. } }` of a right-context function
\* reading from its own copy of the iterator, at position pos.
right_ctx_step(r, s, pos) ==
    IF RcAccepting(r, s) THEN [out |-> "true", state |-> s, pos |-> pos]
    ELSE IF pos >= Len(input)
    THEN IF RcSt(r, s).end_of_input_transition # NoState
         THEN [out |-> "run", state |-> RcSt(r, s).end_of_input_transition, pos |-> pos]
         ELSE [out |-> "false", state |-> s, pos |-> pos]
    ELSE LET arm == right_ctx_state_char_arms(r, s, input[pos + 1])
         IN  IF arm.out = "default"
             THEN IF RcSt(r, s).any_transition # NoState
                  THEN [out |-> "run", state |-> RcSt(r, s).any_transition,
                        pos |-> pos + 1]
                  ELSE [out |-> "false", state |-> s, pos |-> pos + 1]
             ELSE [out |-> arm.out, state |-> arm.state, pos |-> pos + 1]

(***************************************************************************)
(* The automaton read as a table: the meaning of a transition, of a right  *)
(* context and of a candidate list, and the lexer that walks the tables    *)
(* one state per turn of the loop (no inlining, no renumbering, no merged  *)
(* guards).                                                                *)
(***************************************************************************)
\* The least index of a set of indices, 0 when it is empty.
first_index(S) == IF S = {} THEN 0 ELSE Min(S)

\* The entry of a state's tables that answers, given the first character transition
\* (ci) and the first range transition (ri) that apply.
table_entry(state, ci, ri) ==
    IF ci # 0 THEN [t |-> state.char_transitions[ci].next, site |-> "char"]
    ELSE IF ri # 0 THEN [t |-> state.range_transitions[ri].value, site |-> "char"]
    ELSE [t |-> state.any_transition, site |-> "any"]

\* Transition of a state on character c: exact character, else the range that
\* contains it, else the wildcard.  `site` tells which table answered.
table_lookup(state, c) ==
    table_entry(state,
                first_index({i \in DOMAIN state.char_transitions :
                               state.char_transitions[i].ch = c}),
                first_index({i \in DOMAIN state.range_transitions :
                               /\ state.range_transitions[i].start <= c
                               /\ c <= state.range_transitions[i].end}))

RECURSIVE RcAccepts(_, _, _, _)
\* The right-context automaton r, in state s with the input from pos on ahead of it,
\* reaches an accepting state (`fuel` bounds the end-of-input transitions followed).
RcAccepts(r, s, pos, fuel) ==
    IF s = NoState THEN FALSE
    ELSE IF RcSt(r, s).accepting # <<>> THEN TRUE
    ELSE IF pos >= Len(input)
    THEN fuel > 0 /\ RcAccepts(r, RcSt(r, s).end_of_input_transition, pos, fuel - 1)
    ELSE RcAccepts(r, table_lookup(RcSt(r, s), input[pos + 1]).t, pos + 1, fuel)

\* The right-context predicate of a candidate holds on the input from pos on.
CandidateHolds(cand, pos) ==
    \/ cand.right_ctx = NoCtx
    \/ RcAccepts(cand.right_ctx, 0, pos, Len(RcDfa(cand.right_ctx)))

\* Index of the candidate a list selects with the input from pos on ahead: the first
\* candidate whose predicate holds, a candidate without a right context holding
\* always (so that the candidates after one are out of reach).  0 when none holds.
SelectedIndex(cands, pos) ==
    first_index({i \in DOMAIN cands : CandidateHolds(cands[i], pos)})

\* The fields of a table-walking lexer.
RefLexer(st, dn, ini, it, ms, me, lm) ==
    [state |-> st, done |-> dn, initial |-> ini, iter |-> it, start |-> ms, end |-> me,
     last |-> lm]

RefEvent(e, f, r) == [ev |-> e, fn |-> f, r |-> r]

\* Failure to extend: back to the remembered candidate, whose action is then
\* called, or an InvalidToken error.
RefFail(r) ==
    IF ~r.last.some THEN RefEvent("InvalidToken", 0, r)
    ELSE RefEvent("call", r.last.fn,
                  [r EXCEPT !.done = FALSE, !.start = r.last.start, !.end = r.last.end,
                            !.iter = chars_from(input, r.last.end.byte_idx),
                            !.last = None])

\* Nothing applies at end-of-input: the end of the stream in state 0, else failure.
RefEoiDefault(r, s) ==
    IF s = 0 THEN RefEvent("EndOfInput", 0, r) ELSE RefFail(r)

\* Candidate k of a list is selected: its action is called, with no candidate
\* remembered; `otherwise` when none is selected.
RefSelect(r, cands, k, otherwise) ==
    IF k # 0 THEN RefEvent("call", cands[k].value, [r EXCEPT !.last = None])
    ELSE otherwise

\* A transition is taken: on to another state ("run"), or the accepting candidates
\* are tried; `otherwise` when there is no transition or no candidate is selected.
RefTrans(r, t, otherwise) ==
    IF t.k = "Trans" THEN RefEvent("run", 0, [r EXCEPT !.state = t.to])
    ELSE IF t.k = "Accept"
    THEN RefSelect(r, t.acc, SelectedIndex(t.acc, r.iter), otherwise)
    ELSE otherwise

\* No character or range transition applies: the wildcard, or failure.
RefDefault(r, s) == RefTrans(r, St(s).any_transition, RefFail(r))

\* The table entry l is followed after a character was read in state s.
RefChar(r, s, l) ==
    IF l.site = "any" THEN RefTrans(r, l.t, RefFail(r))
    ELSE RefTrans(r, l.t, RefDefault(r, s))

\* End-of-input in state s.
RefEoi(r, s) == RefTrans(r, St(s).end_of_input_transition, RefEoiDefault(r, s))

\* The lexer after reading character c.
RefNext(r, c) == [r EXCEPT !.iter = r.iter + 1, !.end = advance(r.end, c)]

\* One character is read in state s and the transition is taken.
RefRead(r, s) ==
    IF r.iter >= Len(input) THEN RefEoi([r EXCEPT !.done = TRUE], s)
    ELSE RefChar(RefNext(r, input[r.iter + 1]), s,
                 table_lookup(St(s), input[r.iter + 1]))

\* State s is entered: state 0 starts a new match; any other state remembers
\* candidate k of its accepting list, if one is selected.
RefEnter(r, s, k) ==
    IF s = 0 THEN [r EXCEPT !.start = r.end]
    ELSE IF k # 0
    THEN [r EXCEPT !.last = Some(r.start, St(s).accepting[k].value, r.end)]
    ELSE r

\* The code of state s run as its own arm: the accept step, one character read,
\* the transition taken.  "run" when the walk goes on in another state.
RefState(r, s) ==
    RefRead(RefEnter(r, s, SelectedIndex(St(s).accepting, r.iter)), s)

\* One turn of `loop { if done { return None; } match state { .. } }`.
RefLoop(r) ==
    IF r.done THEN RefEvent("EndOfInput", 0, r) ELSE RefState(r, r.state)

\* The effect of the user's action and of generate_semantic_action_call on the
\* table-walking lexer.
RefCall(r, u) ==
    [r EXCEPT !.state = IF u.sw = 0 THEN r.state ELSE Dfa.rule_states[u.sw],
              !.initial = IF u.sw = 0 THEN r.initial ELSE Dfa.rule_states[u.sw],
              !.start = IF u.rm THEN r.end ELSE r.start]

RefReturn(r, res) ==
    [r EXCEPT !.state = r.initial,
              !.start = IF res = "Continue" THEN r.start ELSE r.end]

(***************************************************************************)
(* Values of the control variables.                                        *)
(***************************************************************************)
\* Index of the first candidate without a right context (Len + 1 when there is none):
\* where the `for` loops over the candidates `break`.
first_unguarded(cands) ==
    Min({i \in DOMAIN cands : cands[i].right_ctx = NoCtx} \cup {Len(cands) + 1})

\* test_right_ctxs / generate_state_arm: `alts` (`rhss`), the guarded candidates
\* pushed before the loop breaks
guarded_alts(cands) == SubSeq(cands, 1, first_unguarded(cands) - 1)

\* test_right_ctxs / generate_state_arm: the candidate that replaces `default`,
\* as a sequence of at most one element
unguarded_default(cands) ==
    IF first_unguarded(cands) <= Len(cands) THEN <<cands[first_unguarded(cands)]>>
    ELSE <<>>

\* A faulty chain, folded without `.rev()`: the last guard becomes the outermost `if`.
chain_order_without_rev(alts) == [i \in 1 .. Len(alts) |-> alts[Len(alts) + 1 - i]]

\* `for (cond, rhs) in alts.into_iter().rev() { code = if cond { rhs } else { code } }`:
\* the order in which the emitted chain tests the guards, outermost `if` first
chain_order(alts) == alts

NoCtl == [cands |-> <<>>, alts |-> <<>>, dflt |-> <<>>, i |-> 0, site |-> "none",
          rcres |-> "none"]
Chain(cands, site) ==
    [cands |-> cands, alts |-> chain_order(guarded_alts(cands)),
     dflt |-> unguarded_default(cands), i |-> 1, site |-> site, rcres |-> "none"]
NoRc == [idx |-> NoCtx, state |-> 0, pos |-> 0]

\* What a caller observes: the function called, its arguments and the value returned
\* (a character or a position as a sequence of numbers).
Obs(op, arg, out) == [op |-> op, arg |-> arg, out |-> out]
NoObs == Obs("none", <<>>, <<>>)
LocNumbers(loc) == <<loc.line, loc.col, loc.byte_idx>>

\* Option<char>::None, among code points
NoChar == 0 - 1

NoResult == [k |-> "none", start |-> ZERO, end |-> ZERO, tok |-> 0]
\* `return None`
EndOfInput == [k |-> "EndOfInput", start |-> ZERO, end |-> ZERO, tok |-> 0]
\* Some(Ok((match_start, tok, match_end)))
Token(s, f, e) == [k |-> "Token", start |-> s, end |-> e, tok |-> f]
\* Some(Err(LexerError { location, kind }))
Error(kind, loc) == [k |-> kind, start |-> loc, end |-> loc, tok |-> 0]

\* Where control goes after a piece of generated code: the next pc, the state whose
\* code runs, the value of __state and the candidate chain to evaluate.
Ctrl(p, c, st, t) == [pc |-> p, cur |-> c, state |-> st, ctl |-> t]

\* `self.0.__state = #next_state;` or the next state's code spliced in place
next_state(n) ==
    IF inlined_at_caller(n) THEN Ctrl("state", n, __state, NoCtl)
    ELSE Ctrl("loop", cur, renumber_state(n), NoCtl)

\* the right-hand side of an arm: go to a state, or test_right_ctxs on Accept
take_transition(t, site) ==
    IF t.k = "Trans" THEN next_state(t.to)
    ELSE Ctrl("test", cur, __state, Chain(t.acc, site))

\* generate_state_arm: default_action (the `_` arm of `match char`)
default_action(s) ==
    IF St(s).any_transition.k = "None" THEN Ctrl("fail", cur, __state, NoCtl)
    ELSE take_transition(St(s).any_transition, "any")

\* A faulty end-of-input arm: the flag is left as it is.
done_not_latched(done) == done

\* generate_state_arm: `self.0.__done = true; // don't handle end-of-input again`
done_at_end_of_input(done) == TRUE

\* A faulty default: unhandled end-of-input ends the stream in every state.
end_of_input_returns_none(s) == Ctrl("return_none", cur, __state, NoCtl)

\* generate_state_arm: end_of_input_default_action
end_of_input_default_action(s) ==
    IF s = 0 THEN Ctrl("return_none", cur, __state, NoCtl)
    ELSE Ctrl("fail", cur, __state, NoCtl)

\* generate_state_arm: end_of_input_action (after `self.0.__done = true`)
end_of_input_action(s) ==
    LET t == St(s).end_of_input_transition
    IN  IF t.k = "Accept" THEN Ctrl("test", cur, __state, Chain(t.acc, "eoi"))
        ELSE IF t.k = "Trans" THEN Ctrl("loop", cur, renumber_state(t.to), NoCtl)
        ELSE end_of_input_default_action(s)

\* A faulty fallback: the chain fails wherever no candidate is selected.
default_rhs_always_fail(site, s) == Ctrl("fail", cur, __state, NoCtl)

\* test_right_ctxs: the default_rhs the chain falls back to at each call site
default_rhs(site, s) ==
    IF site = "char" THEN default_action(s)
    ELSE IF site = "eoi" THEN end_of_input_default_action(s)
    ELSE Ctrl("fail", cur, __state, NoCtl)

\* A faulty call: the right-context function reads from the primary cursor itself.
right_ctx_on_primary_iter(primary, rc_pos) == rc_pos

\* `#right_ctx_fn(self.0.__iter.clone())`: the primary cursor after the function
\* has read up to rc_pos from its own copy
primary_iter_after_right_ctx(primary, rc_pos) == primary

\* generate_switch: `#enum_name::#rule_ident => self.0.__state = #state_idx`, the
\* value stored for a rule-set
switch(rule) == renumber_state(Dfa.rule_states[rule])

\* A faulty switch: __initial_state is left as it was.
initial_state_kept(new_state, old_initial) == old_initial

\* generate_switch: `self.0.__initial_state = self.0.__state;`
initial_state_after_switch(new_state, old_initial) == new_state

\* What a semantic action may do and return, by RuleRhs / RuleKind.
UserChoices(kind) ==
    IF kind = "None" THEN {[res |-> "Continue", sw |-> 0, rm |-> FALSE]}
    ELSE IF kind = "Simple" THEN {[res |-> "Ok", sw |-> 0, rm |-> FALSE]}
    ELSE [res : IF kind = "Fallible" THEN {"Continue", "Ok", "Err"}
                ELSE {"Continue", "Ok"},
          sw : {0} \cup Rules,
          rm : BOOLEAN]

Apply(o) ==
    /\ pc' = IF o.pc = "return_none" THEN "idle" ELSE o.pc
    /\ result' = IF o.pc = "return_none" THEN EndOfInput ELSE result
    /\ cur' = o.cur
    /\ __state' = o.state
    /\ ctl' = o.ctl

(***************************************************************************)
(* The lexer.                                                              *)
(***************************************************************************)
\* Lexer::new_with_state: the fields of a new lexer (and the model's bookkeeping)
NewLexer ==
    /\ __state = 0
    /\ __done = FALSE
    /\ __initial_state = 0
    /\ iter = 0
    /\ current_match_start = ZERO
    /\ current_match_end = ZERO
    /\ last_match = None
    /\ pc = "idle"
    /\ cur = 0
    /\ ctl = NoCtl
    /\ rc = NoRc
    /\ fn = 0
    /\ ret = "none"
    /\ result = NoResult
    /\ hist = [scan_iter |-> 0, scan_loc |-> ZERO, scan_state |-> 0, rule |-> 1,
               req_iter |-> 0, inv_start |-> ZERO, inv_end |-> ZERO, via |-> "none",
               erred |-> FALSE, stale |-> FALSE, sw |-> 0, rm |-> FALSE,
               skipped |-> FALSE, tok_end |-> ZERO, tok_prev |-> ZERO]
    /\ ref = RefEvent("none", 0, RefLexer(0, FALSE, 0, 0, ZERO, ZERO, None))

\* A lexer generated from one of the automata is created on an input string.
Init ==
    /\ cfg \in {c \in DOMAIN Configs : lexer_compiles(c)}
    /\ code_generation_returns
    /\ state_0_entered_by_dispatch_only
    /\ input \in Strings(Configs[cfg].alphabet, MaxLen) \cup LongInputs(cfg)
    /\ obs = NoObs
    /\ NewLexer

\* The caller asks for the next item: Iterator::next is entered.
Request ==
    /\ pc = "idle"
    /\ ref.ev # "run"
    /\ pc' = "loop"
    /\ result' = NoResult
    /\ hist' = [hist EXCEPT !.req_iter = iter]
    /\ ref' = [ref EXCEPT !.ev = "run"]
    /\ UNCHANGED <<cfg, input, obs, __state, __done, __initial_state, iter,
                   current_match_start, current_match_end, last_match, cur, ctl, rc,
                   fn, ret>>

\* `loop { if self.0.__done { return None; } match self.0.__state { .. } }`
LoopTop ==
    /\ pc = "loop"
    /\ IF __done
       THEN /\ pc' = "idle"
            /\ result' = EndOfInput
            /\ cur' = cur
       ELSE /\ pc' = "state"
            /\ result' = result
            /\ cur' = dispatch(__state)
    /\ UNCHANGED <<cfg, input, obs, __state, __done, __initial_state, iter,
                   current_match_start, current_match_end, last_match, ctl, rc, fn,
                   ret, hist, ref>>

\* generate_state_arm: what precedes `match self.0.next()`: reset_match in state 0,
\* the set_accepting_state chain in an accepting state, nothing otherwise
StateEntry ==
    /\ pc = "state"
    /\ IF cur = 0
       THEN /\ current_match_start' = reset_match(current_match_start, current_match_end)
            /\ pc' = "read"
            /\ ctl' = ctl
       ELSE IF St(cur).accepting # <<>>
       THEN /\ current_match_start' = current_match_start
            /\ pc' = "test"
            /\ ctl' = Chain(St(cur).accepting, "state")
       ELSE /\ current_match_start' = current_match_start
            /\ pc' = "read"
            /\ ctl' = ctl
    /\ UNCHANGED <<cfg, input, obs, __state, __done, __initial_state, iter,
                   current_match_end, last_match, cur, rc, fn, ret, result, hist, ref>>

\* The chain `if rc1(..) { .. } else if rc2(..) { .. } else { default }`: the next
\* guard is called on a copy of the iterator.
TestGuard ==
    /\ pc = "test"
    /\ ctl.i <= Len(ctl.alts)
    /\ ctl.rcres = "none"
    /\ pc' = "rctx"
    /\ rc' = [idx |-> ctl.alts[ctl.i].right_ctx, state |-> 0, pos |-> iter]
    /\ UNCHANGED <<cfg, input, obs, __state, __done, __initial_state, iter,
                   current_match_start, current_match_end, last_match, cur, ctl, fn,
                   ret, result, hist, ref>>

\* One turn of the loop of the right-context function.
RightCtxStep ==
    /\ pc = "rctx"
    /\ LET r == right_ctx_step(rc.idx, rc.state, rc.pos)
       IN  /\ iter' = primary_iter_after_right_ctx(iter, r.pos)
           /\ IF r.out = "run"
              THEN /\ rc' = [rc EXCEPT !.state = r.state, !.pos = r.pos]
                   /\ pc' = "rctx"
                   /\ ctl' = ctl
              ELSE /\ rc' = NoRc
                   /\ pc' = "test"
                   /\ ctl' = [ctl EXCEPT !.rcres = r.out]
    /\ UNCHANGED <<cfg, input, obs, __state, __done, __initial_state,
                   current_match_start, current_match_end, last_match, cur, fn, ret,
                   result, hist, ref>>

\* The guard returned false: the `else` branch holds the rest of the chain.
TestElse ==
    /\ pc = "test"
    /\ ctl.i <= Len(ctl.alts)
    /\ ctl.rcres = "false"
    /\ ctl' = [ctl EXCEPT !.i = ctl.i + 1, !.rcres = "none"]
    /\ UNCHANGED <<cfg, input, obs, __state, __done, __initial_state, iter,
                   current_match_start, current_match_end, last_match, pc, cur, rc,
                   fn, ret, result, hist, ref>>

\* The guard returned true, or all guards returned false and there is a candidate
\* without right context (the chain's innermost `else`).  In an accepting state
\* the candidate is remembered; on an Accept transition generate_rhs_code runs:
\* reset_accepting_state, then the semantic action is called.
TestSelect ==
    /\ pc = "test"
    /\ \/ ctl.i <= Len(ctl.alts) /\ ctl.rcres = "true"
       \/ ctl.i > Len(ctl.alts) /\ ctl.dflt # <<>>
    /\ LET f == IF ctl.i <= Len(ctl.alts) THEN ctl.alts[ctl.i].value
                ELSE ctl.dflt[1].value
       IN  IF ctl.site = "state"
           THEN /\ last_match' = Some(current_match_start, f, current_match_end)
                /\ pc' = "read"
                /\ fn' = fn
                /\ hist' = hist
           ELSE /\ last_match' = reset_accepting_state(last_match)
                /\ pc' = "call"
                /\ fn' = f
                /\ hist' = [hist EXCEPT !.inv_start = current_match_start,
                                        !.inv_end = current_match_end,
                                        !.via = "accept"]
    /\ ctl' = NoCtl
    /\ UNCHANGED <<cfg, input, obs, __state, __done, __initial_state, iter,
                   current_match_start, current_match_end, cur, rc, ret, result, ref>>

\* No candidate was selected: the innermost `else` of the chain, which is empty in
\* an accepting state and default_rhs on an Accept transition.
TestDefault ==
    /\ pc = "test"
    /\ ctl.i > Len(ctl.alts)
    /\ ctl.dflt = <<>>
    /\ IF ctl.site = "state"
       THEN Apply(Ctrl("read", cur, __state, NoCtl))
       ELSE Apply(default_rhs(ctl.site, cur))
    /\ UNCHANGED <<cfg, input, obs, __done, __initial_state, iter, current_match_start,
                   current_match_end, last_match, rc, fn, ret, hist, ref>>

\* `match self.0.next() { None => { __done = true; .. } Some(char) => match char { .. } }`
ReadChar ==
    /\ pc = "read"
    /\ IF iter >= Len(input)
       THEN /\ __done' = done_at_end_of_input(__done)
            /\ iter' = iter
            /\ current_match_end' = current_match_end
            /\ Apply(end_of_input_action(cur))
       ELSE LET char == input[iter + 1]
                t == state_char_arms(cur, char)
            IN  /\ __done' = __done
                /\ iter' = iter + 1
                /\ current_match_end' = advance(current_match_end, char)
                /\ Apply(IF t.k = "None" THEN default_action(cur)
                         ELSE take_transition(t, "char"))
    /\ obs' = NoObs
    /\ UNCHANGED <<cfg, input, __initial_state, current_match_start, last_match, rc,
                   fn, ret, hist, ref>>

\* fail(): `match self.0.backtrack() { Err(err) => return Some(Err(err)),
\*                                     Ok(semantic_action) => <call it> }`
Fail ==
    /\ pc = "fail"
    /\ IF ~last_match.some
       THEN /\ result' = Error("InvalidToken",
                               invalid_token_location(current_match_start,
                                                      current_match_end))
            /\ pc' = "idle"
            /\ hist' = [hist EXCEPT !.scan_iter = iter,
                                    !.scan_loc = current_match_end,
                                    !.scan_state = dispatch(__state),
                                    !.erred = TRUE,
                                    !.stale = TRUE,
                                    !.skipped = FALSE]
            /\ UNCHANGED <<__done, current_match_start, current_match_end, iter, fn>>
       ELSE /\ __done' = done_after_backtrack(__done)
            /\ current_match_start' = last_match.start
            /\ current_match_end' = last_match.end
            /\ iter' = chars_from(input, last_match.end.byte_idx)
            /\ fn' = last_match.fn
            /\ pc' = "call"
            /\ result' = result
            /\ hist' = [hist EXCEPT !.inv_start = last_match.start,
                                    !.inv_end = last_match.end,
                                    !.via = "backtrack"]
    /\ last_match' = None
    /\ UNCHANGED <<cfg, input, obs, __state, __initial_state, cur, ctl, rc, ret, ref>>

\* The user's code of a semantic action calls peek.
Peek ==
    /\ pc = "call"
    /\ ref.ev # "run"
    /\ Dfa.actions[fn + 1] \in {"Fallible", "Infallible"}
    /\ obs' = Obs("peek", <<>>, <<peek(input, iter).out>>)
    /\ iter' = peek(input, iter).iter
    /\ UNCHANGED <<cfg, input, __state, __done, __initial_state, current_match_start,
                   current_match_end, last_match, pc, cur, ctl, rc, fn, ret, result,
                   hist, ref>>

\* The user's code of a semantic action calls match_.
MatchText ==
    /\ pc = "call"
    /\ ref.ev # "run"
    /\ Dfa.actions[fn + 1] \in {"Fallible", "Infallible"}
    /\ obs' = Obs("match_", <<>>, match_(input, current_match_start, current_match_end))
    /\ UNCHANGED <<cfg, input, __state, __done, __initial_state, iter,
                   current_match_start, current_match_end, last_match, pc, cur, ctl,
                   rc, fn, ret, result, hist, ref>>

\* The user's code of a semantic action calls match_loc.
MatchLoc ==
    /\ pc = "call"
    /\ ref.ev # "run"
    /\ Dfa.actions[fn + 1] \in {"Fallible", "Infallible"}
    /\ obs' = Obs("match_loc", <<>>,
                  LocNumbers(match_loc(current_match_start, current_match_end)[1])
                    \o LocNumbers(match_loc(current_match_start, current_match_end)[2]))
    /\ UNCHANGED <<cfg, input, __state, __done, __initial_state, iter,
                   current_match_start, current_match_end, last_match, pc, cur, ctl,
                   rc, fn, ret, result, hist, ref>>

\* The semantic action runs: user code that may call switch and reset_match (peek,
\* match_ and match_loc only read) and returns Continue, Return(Ok) or Return(Err).
Call ==
    /\ pc = "call"
    /\ ref.ev # "run"
    /\ \E u \in UserChoices(Dfa.actions[fn + 1]) :
          /\ ret' = u.res
          /\ IF u.sw = 0
             THEN UNCHANGED <<__state, __initial_state>>
             ELSE /\ __state' = switch(u.sw)
                  /\ __initial_state' =
                        initial_state_after_switch(switch(u.sw), __initial_state)
          /\ current_match_start' =
                IF u.rm THEN reset_match(current_match_start, current_match_end)
                ELSE current_match_start
          /\ hist' = [hist EXCEPT !.rule = IF u.sw = 0 THEN hist.rule ELSE u.sw,
                                  !.sw = u.sw,
                                  !.rm = u.rm]
          /\ ref' = [ref EXCEPT !.r = RefCall(ref.r, u)]
    /\ pc' = "ret"
    /\ UNCHANGED <<cfg, input, obs, __done, iter, current_match_end, last_match, cur, ctl,
                   rc, fn, result>>

\* generate_semantic_action_call: the `match` on the action's result.
Return ==
    /\ pc = "ret"
    /\ __state' = __initial_state
    /\ IF ret = "Continue"
       THEN /\ pc' = "loop"
            /\ result' = result
            /\ current_match_start' = current_match_start
       ELSE LET ml == match_loc(current_match_start, current_match_end)
                new_start == reset_match(current_match_start, current_match_end)
            IN  /\ pc' = "idle"
                /\ current_match_start' = new_start
                /\ result' = IF ret = "Ok" THEN Token(ml[1], fn, ml[2])
                             ELSE Error("Custom",
                                        match_loc(new_start, current_match_end)[1])
    /\ ret' = "none"
    /\ ref' = RefEvent(IF ret = "Continue" THEN "run" ELSE "none", 0,
                       RefReturn(ref.r, ret))
    /\ hist' = [hist EXCEPT !.scan_iter = iter,
                            !.scan_loc = current_match_end,
                            !.scan_state = dispatch(__initial_state),
                            !.via = "none",
                            !.stale = FALSE,
                            !.sw = 0,
                            !.rm = FALSE,
                            !.skipped = (ret = "Continue"),
                            !.tok_end = IF ret = "Ok" THEN current_match_end
                                        ELSE hist.tok_end,
                            !.tok_prev = IF ret = "Ok" THEN hist.tok_end
                                         ELSE hist.tok_prev]
    /\ UNCHANGED <<cfg, input, obs, __done, __initial_state, iter, current_match_end,
                   last_match, cur, ctl, rc, fn>>

\* The table-walking lexer runs one state's code, once the generated lexer has
\* reached the call of a semantic action or the end of the request.
RefStep ==
    /\ pc \in {"call", "idle"}
    /\ ref.ev = "run"
    /\ ref' = RefLoop(ref.r)
    /\ UNCHANGED <<cfg, input, obs, __state, __done, __initial_state, iter,
                   current_match_start, current_match_end, last_match, pc, cur, ctl,
                   rc, fn, ret, result, hist>>

Next ==
    \/ Request
    \/ LoopTop
    \/ StateEntry
    \/ TestGuard
    \/ RightCtxStep
    \/ TestElse
    \/ TestSelect
    \/ TestDefault
    \/ ReadChar
    \/ Fail
    \/ Peek
    \/ MatchText
    \/ MatchLoc
    \/ Call
    \/ Return
    \/ RefStep

Spec == Init /\ [][Next]_vars

FairSpec == Spec /\ WF_vars(Next) /\ WF_vars(Call)

(***************************************************************************)
(* The position tracker on its own: Lexer::next called on inputs made of   *)
(* characters of every encoded length and display width.                   *)
(* 7 BEL (a control character), 9 tab, 10 newline, 97 'a', 161 U+00A1      *)
(* (two bytes, ambiguous width), 769 U+0301 (two bytes, a combining mark), *)
(* 20013 U+4E2D (three bytes, wide), 65536 U+10000 (four bytes).           *)
(***************************************************************************)
PosChars == {7, 9, 10, 97, 161, 769, 20013, 65536}

PosInit ==
    /\ cfg = 1
    /\ input \in Strings(PosChars, MaxLen)
    /\ obs = NoObs
    /\ NewLexer

\* Lexer::next
LexerNext ==
    /\ pc = "idle"
    /\ IF iter >= Len(input)
       THEN /\ obs' = Obs("next", <<>>, <<NoChar>>)
            /\ UNCHANGED <<iter, current_match_end>>
       ELSE /\ obs' = Obs("next", <<>>, <<input[iter + 1]>>)
            /\ iter' = iter + 1
            /\ current_match_end' = advance(current_match_end, input[iter + 1])
    /\ UNCHANGED <<cfg, input, __state, __done, __initial_state, current_match_start,
                   last_match, pc, cur, ctl, rc, fn, ret, result, hist, ref>>

PosNext == LexerNext

PosSpec == PosInit /\ [][PosNext]_vars

(***************************************************************************)
(* The merged range guards on their own: the range arms the code generator *)
(* emits for one state's range transitions, and the emitted guards         *)
(* evaluated on single characters.                                         *)
(***************************************************************************)
\* Largest code point of the range transitions enumerated.
MaxChar == 10

RECURSIVE RangeLists(_, _)
\* The lists of n inclusive ranges, ordered by start and pairwise disjoint, in
\* from .. MaxChar: what iterating a RangeMap yields.
RangeLists(from, n) ==
    IF n = 0 THEN {<<>>}
    ELSE UNION {UNION {{<<[start |-> s, end |-> e]>> \o rest :
                          rest \in RangeLists(e + 1, n - 1)} : e \in s .. MaxChar} :
                  s \in from .. MaxChar}

\* Which of n ranges lead to state 2, the others leading to state 1.
Destinations(n) == {{}, {1}, 1 .. n, 2 .. n}

\* the Vec of `state_ranges` for one destination: its ranges in the order the
\* range map yields them
state_ranges_entry(rs, next) == SelectSeq(rs, LAMBDA r : r.value = next)

RECURSIVE sorted_by_start(_)
\* The ranges of a list ordered by start.
sorted_by_start(ranges) ==
    IF ranges = <<>> THEN <<>>
    ELSE LET m == CHOOSE i \in DOMAIN ranges :
                     \A j \in DOMAIN ranges : ranges[i].start <= ranges[j].start
         IN  <<ranges[m]>> \o sorted_by_start(SubSeq(ranges, 1, m - 1)
                                              \o SubSeq(ranges, m + 1, Len(ranges)))

\* `accept_ranges.into_iter().collect()`: the ranges of the set as a table
set_into_iter(ranges) == sorted_by_start(ranges)

\* One emitted arm `x if guard => ..`.
RangeArm(out, next, ranges) ==
    [out |-> out, next |-> next, kind |-> guard_kind(ranges), ranges |-> ranges]

\* generate_state_char_arms, "Add range transitions": one arm per destination state
merged_range_arms(rs) ==
    {RangeArm("state", n.to, state_ranges_entry(rs, n)) :
        n \in {rs[i].value : i \in {j \in DOMAIN rs : rs[j].value.k = "Trans"}}}

\* generate_right_ctx_state_char_arms, "Add range transitions": one arm per
\* destination state that is not accepting, one arm for all accepting ones
right_ctx_range_arms(rs, accepting) ==
    LET accept_ranges == SelectSeq(rs, LAMBDA r : r.value \in accepting)
    IN  {RangeArm("state", n, state_ranges_entry(rs, n)) :
            n \in {rs[i].value : i \in DOMAIN rs} \ accepting}
        \cup (IF accept_ranges = <<>> THEN {}
              ELSE {RangeArm("true", NoState, set_into_iter(accept_ranges))})

TableInit ==
    /\ cfg = 1
    /\ input = <<>>
    /\ \E n \in MAX_GUARD_SIZE .. (MaxChar + 1) :
         \E l \in RangeLists(0, n), d \in Destinations(n) :
            obs = Obs("range_transitions",
                      [i \in 1 .. n |-> Rg(l[i].start, l[i].end, IF i \in d THEN 2 ELSE 1)],
                      {})
    /\ NewLexer

\* generate_state_char_arms on a state of the main automaton with these range
\* transitions, each to the state named
GenerateStateCharArms ==
    /\ obs.op = "range_transitions"
    /\ obs' = Obs("state_char_arms", obs.arg,
                  merged_range_arms([i \in DOMAIN obs.arg |->
                      Rg(obs.arg[i].start, obs.arg[i].end, T(obs.arg[i].value))]))
    /\ UNCHANGED <<cfg, input, __state, __done, __initial_state, iter,
                   current_match_start, current_match_end, last_match, pc, cur, ctl,
                   rc, fn, ret, result, hist, ref>>

\* generate_right_ctx_state_char_arms on a state of a right-context automaton with
\* these range transitions, whose state 2 is accepting
GenerateRightCtxStateCharArms ==
    /\ obs.op = "range_transitions"
    /\ obs' = Obs("right_ctx_state_char_arms", obs.arg, right_ctx_range_arms(obs.arg, {2}))
    /\ UNCHANGED <<cfg, input, __state, __done, __initial_state, iter,
                   current_match_start, current_match_end, last_match, pc, cur, ctl,
                   rc, fn, ret, result, hist, ref>>

\* The guard of an emitted arm is evaluated on a character.
EvalGuard ==
    /\ obs.op \in {"state_char_arms", "right_ctx_state_char_arms"}
    /\ \E arm \in obs.out, c \in 0 .. (MaxChar + 1) :
          obs' = Obs("guard", <<[c |-> c, out |-> arm.out, next |-> arm.next,
                                 kind |-> arm.kind,
                                 holds |-> range_guard(arm.ranges, c)]>>, {})
    /\ UNCHANGED <<cfg, input, __state, __done, __initial_state, iter,
                   current_match_start, current_match_end, last_match, pc, cur, ctl,
                   rc, fn, ret, result, hist, ref>>

TableNext ==
    \/ GenerateStateCharArms
    \/ GenerateRightCtxStateCharArms
    \/ EvalGuard

TableSpec == TableInit /\ [][TableNext]_vars

(***************************************************************************)
(* The code generator: generate_state_arms walks the states of an          *)
(* automaton and generate_state_arm calls itself for every state it        *)
(* splices in.  obs.out is the stack of the calls of generate_state_arm,   *)
(* each with the call sites it has still to generate; cur is the index of  *)
(* the `for` loop of generate_state_arms.                                  *)
(***************************************************************************)
\* Deepest nesting of calls of generate_state_arm that is followed.
MaxInlineDepth == 5

StateArmCall(s) == [state |-> s, rest |-> call_sites(s)]

GenInit ==
    /\ cfg \in DOMAIN Configs
    /\ input = <<>>
    /\ obs = Obs("generate_state_arms", <<>>, <<>>)
    /\ NewLexer

\* generate_state_arms: one turn of `for (state_idx, state) in states.iter().enumerate()`
GenerateStateArms ==
    /\ obs.op = "generate_state_arms"
    /\ obs.out = <<>>
    /\ cur < NStates
    /\ cur' = cur + 1
    /\ obs' = IF has_no_arm(cur) THEN obs
              ELSE [obs EXCEPT !.out = <<StateArmCall(cur)>>]
    /\ UNCHANGED <<cfg, input, __state, __done, __initial_state, iter,
                   current_match_start, current_match_end, last_match, pc, ctl, rc,
                   fn, ret, result, hist, ref>>

\* generate_state_arms: the loop is over, `match_arms` is returned
GenerateStateArmsReturn ==
    /\ obs.op = "generate_state_arms"
    /\ obs.out = <<>>
    /\ cur = NStates
    /\ obs' = Obs("match_arms", <<>>, <<>>)
    /\ UNCHANGED <<cfg, input, __state, __done, __initial_state, iter,
                   current_match_start, current_match_end, last_match, pc, cur, ctl,
                   rc, fn, ret, result, hist, ref>>

\* The running generate_state_arm generates its next go-to-state right-hand side:
\* a call of generate_state_arm for a state with one predecessor, the store of
\* the state's index otherwise.
GenerateCallSite ==
    /\ obs.out # <<>>
    /\ obs.out[Len(obs.out)].rest # <<>>
    /\ LET top == obs.out[Len(obs.out)]
           popped == [obs.out EXCEPT ![Len(obs.out)].rest = Tail(top.rest)]
       IN  IF inlined_at_caller(Head(top.rest))
           THEN /\ Len(obs.out) < MaxInlineDepth
                /\ obs' = [obs EXCEPT !.out = Append(popped, StateArmCall(Head(top.rest)))]
           ELSE obs' = [obs EXCEPT !.out = popped]
    /\ UNCHANGED <<cfg, input, __state, __done, __initial_state, iter,
                   current_match_start, current_match_end, last_match, pc, cur, ctl,
                   rc, fn, ret, result, hist, ref>>

\* The running generate_state_arm has generated all its right-hand sides and
\* returns the code of the state.
GenerateStateArmReturn ==
    /\ obs.out # <<>>
    /\ obs.out[Len(obs.out)].rest = <<>>
    /\ obs' = [obs EXCEPT !.out = SubSeq(obs.out, 1, Len(obs.out) - 1)]
    /\ UNCHANGED <<cfg, input, __state, __done, __initial_state, iter,
                   current_match_start, current_match_end, last_match, pc, cur, ctl,
                   rc, fn, ret, result, hist, ref>>

GenNext ==
    \/ GenerateStateArms
    \/ GenerateStateArmsReturn
    \/ GenerateCallSite
    \/ GenerateStateArmReturn

GenSpec == GenInit /\ [][GenNext]_vars

(***************************************************************************)
(* The right-context functions on their own: each generated function       *)
(* called on the input from some position on.                              *)
(***************************************************************************)
RcInit ==
    /\ cfg \in {c \in DOMAIN Configs : Configs[c].right_ctx # <<>>}
    /\ input \in Strings(Configs[cfg].alphabet, MaxLen)
    /\ obs = NoObs
    /\ NewLexer

\* `#right_ctx_fn(iter)`: the function of right context r is called on the input
\* from pos on; there is nothing to call when it did not compile.
RightCtxFnCall ==
    /\ rc = NoRc
    /\ obs.out = <<>>
    /\ \E r \in 0 .. (Len(Dfa.right_ctx) - 1), pos \in 0 .. Len(input) :
          IF right_ctx_fn_compiles(RcDfa(r))
          THEN /\ rc' = [idx |-> r, state |-> 0, pos |-> pos]
               /\ obs' = Obs("right_ctx", <<r, pos>>, <<>>)
          ELSE /\ rc' = rc
               /\ obs' = Obs("right_ctx", <<r, pos>>, <<"rejected">>)
    /\ UNCHANGED <<cfg, input, __state, __done, __initial_state, iter,
                   current_match_start, current_match_end, last_match, pc, cur, ctl,
                   fn, ret, result, hist, ref>>

\* One turn of `loop { match state { .. } }` of the function.
RightCtxFnLoop ==
    /\ rc # NoRc
    /\ IF right_ctx_step(rc.idx, rc.state, rc.pos).out = "run"
       THEN /\ rc' = [rc EXCEPT !.state = right_ctx_step(rc.idx, rc.state, rc.pos).state,
                                !.pos = right_ctx_step(rc.idx, rc.state, rc.pos).pos]
            /\ obs' = obs
       ELSE /\ rc' = NoRc
            /\ obs' = [obs EXCEPT !.out = <<right_ctx_step(rc.idx, rc.state, rc.pos).out>>]
    /\ UNCHANGED <<cfg, input, __state, __done, __initial_state, iter,
                   current_match_start, current_match_end, last_match, pc, cur, ctl,
                   fn, ret, result, hist, ref>>

RcNext ==
    \/ RightCtxFnCall
    \/ RightCtxFnLoop

RcSpec == RcInit /\ [][RcNext]_vars

(***************************************************************************)
(* Properties of the matching engine.                                      *)
(***************************************************************************)
\* Target of a transition that goes on to a state, NoState otherwise.
TransTarget(t) == IF t.k = "Trans" THEN t.to ELSE NoState

\* The transition followed for the table entry l with the cursor at pos: the entry,
\* or the wildcard `any` when the entry is a character or range accept-now list none
\* of whose candidates is selected.
FollowedTrans(l, any, pos) ==
    IF l.site = "char" /\ l.t.k = "Accept" /\ SelectedIndex(l.t.acc, pos) = 0 THEN any
    ELSE l.t

\* The transition state s takes on the character that follows position pos.
EffectiveTrans(s, pos) ==
    FollowedTrans(table_lookup(St(s), input[pos + 1]), St(s).any_transition, pos + 1)

RECURSIVE WalkTrans(_, _, _)
\* The state the tables lead to from state s over the n characters that follow
\* position pos; NoState when the path ends before.
WalkTrans(s, pos, n) ==
    IF s = NoState \/ n = 0 THEN s
    ELSE WalkTrans(TransTarget(EffectiveTrans(s, pos)), pos + 1, n - 1)

\* State s, reached with the cursor at pos, offers an accepting candidate: one of
\* its accepting list, or one of its end-of-input transition at the end of the input.
AcceptsAfter(s, pos) ==
    /\ s # NoState
    /\ \/ SelectedIndex(St(s).accepting, pos) # 0
       \/ /\ pos = Len(input)
          /\ St(s).end_of_input_transition.k = "Accept"
          /\ SelectedIndex(St(s).end_of_input_transition.acc, pos) # 0

\* State s has an accept-now transition on the character that follows pos, with a
\* candidate that is selected.
AcceptsOn(s, pos) ==
    /\ s # NoState
    /\ pos < Len(input)
    /\ EffectiveTrans(s, pos).k = "Accept"
    /\ SelectedIndex(EffectiveTrans(s, pos).acc, pos + 1) # 0

\* The n characters that follow position `from` reach an accepting candidate along
\* the path from state s0.
AcceptedPrefix(s0, from, n) ==
    \/ AcceptsAfter(WalkTrans(s0, from, n), from + n)
    \/ n > 0 /\ AcceptsOn(WalkTrans(s0, from, n - 1), from + n - 1)

\* The text between position `from` and the cursor is the longest prefix of the
\* input from `from` on that reaches an accepting candidate from state s0.
LongestAccepted(s0, from) ==
    /\ iter >= from
    /\ AcceptedPrefix(s0, from, iter - from)
    /\ \A m \in (iter - from + 1) .. (Len(input) - from) : ~AcceptedPrefix(s0, from, m)

\* C1 (maximal munch): whenever a semantic action is called, the text consumed since
\* the scan began is the longest prefix that reaches an accepting candidate along
\* the path from the start state of the active rule-set.
MaximalMunch ==
    pc = "call" => LongestAccepted(Dfa.rule_states[hist.rule], hist.scan_iter)

\* C1, as far as it holds: the same for the scans that begin in the arm of the
\* start state of the active rule-set (every scan before the first InvalidToken).
MaximalMunchFromStart ==
    (pc = "call" /\ hist.scan_state = Dfa.rule_states[hist.rule])
        => LongestAccepted(Dfa.rule_states[hist.rule], hist.scan_iter)

\* A request resumed after an InvalidToken hands "a c" to the action of
\* ['a'-'b']+ 'c'.
MaximalMunchResumed ==
    /\ pc = "call"
    /\ hist.erred
    /\ hist.scan_state # Dfa.rule_states[hist.rule]
    /\ ~LongestAccepted(Dfa.rule_states[hist.rule], hist.scan_iter)

\* The generated lexer and the table-walking lexer are at the same point.
SameCall ==
    /\ ref.ev = "call"
    /\ ref.fn = fn
    /\ ref.r.start = current_match_start
    /\ ref.r.end = current_match_end
    /\ ref.r.iter = iter

\* C2 (optimizer equivalence): the generated lexer and the table-walking lexer call
\* the same semantic actions on the same matches with the same cursor, fail with
\* InvalidToken at the same requests with the same location, and end together.
OptimizerEquivalence ==
    ref.ev # "run" =>
        /\ pc = "call" => SameCall
        /\ (pc = "idle" /\ result.k = "InvalidToken")
              => (ref.ev = "InvalidToken" /\ ref.r.start = result.start)
        /\ (pc = "idle" /\ result.k = "EndOfInput") => ref.ev = "EndOfInput"
        /\ (pc = "idle" /\ result.k \in {"Token", "Custom"}) => ref.ev = "none"

\* C2, as far as it holds: the same up to the first InvalidToken.
OptimizerEquivalenceBeforeError ==
    (ref.ev # "run" /\ ~hist.erred) => OptimizerEquivalence

\* After an InvalidToken the two lexers are at different points.
OptimizerDiverged ==
    /\ hist.erred
    /\ ref.ev # "run"
    /\ pc = "idle"
    /\ result.k = "EndOfInput"
    /\ ref.ev = "call"

\* C3 (backtrack exactness): when backtrack finds a remembered candidate, the match
\* end and start become the recorded ones, the cursor yields the input from the
\* recorded end byte offset on, and the recorded semantic action is called next.
BacktrackExact ==
    [][(pc = "fail" /\ last_match.some) =>
          /\ current_match_end' = last_match.end
          /\ current_match_start' = last_match.start
          /\ iter' <= Len(input)
          /\ ByteLen(SubSeq(input, 1, iter')) = last_match.end.byte_idx
          /\ pc' = "call"
          /\ fn' = last_match.fn]_vars

\* A backtrack over a two-byte character, with input left after the recorded end.
BacktrackedOverTwoBytes ==
    /\ pc = "call"
    /\ hist.via = "backtrack"
    /\ current_match_end.byte_idx = 2
    /\ iter = 1
    /\ Len(input) > 1

\* A step on which the accepting candidates of the states in `states` and of every
\* accept-now transition are evaluated, and the candidate taken is the one the list selects:
\* the first guarded candidate whose right context holds, else the unguarded one.
SelectionAt(states) ==
    /\ (StateEntry /\ cur \in states /\ St(cur).accepting # <<>>)
          => (pc' = "test" /\ ctl'.cands = St(cur).accepting /\ ctl'.i = 1)
    /\ (ReadChar /\ iter < Len(input)
                 /\ table_lookup(St(cur), input[iter + 1]).t.k = "Accept")
          => /\ pc' = "test"
             /\ ctl'.cands = table_lookup(St(cur), input[iter + 1]).t.acc
             /\ ctl'.i = 1
    /\ (ReadChar /\ iter >= Len(input)
                 /\ St(cur).end_of_input_transition.k = "Accept")
          => /\ pc' = "test"
             /\ ctl'.cands = St(cur).end_of_input_transition.acc
             /\ ctl'.i = 1
    /\ TestSelect
          => /\ SelectedIndex(ctl.cands, iter) # 0
             /\ IF ctl.site = "state"
                THEN last_match' =
                        Some(current_match_start,
                             ctl.cands[SelectedIndex(ctl.cands, iter)].value,
                             current_match_end)
                ELSE /\ pc' = "call"
                     /\ fn' = ctl.cands[SelectedIndex(ctl.cands, iter)].value
    /\ TestDefault
          => /\ SelectedIndex(ctl.cands, iter) = 0
             /\ pc' # "call"
             /\ last_match' = last_match

\* C4 (candidate selection order), for the states that have an accept step: at
\* every accepting state other than state 0 and at every accept-now transition the
\* guarded candidates are tried in declared order, the first whose right context
\* holds is selected, else the unguarded candidate; candidates after the unguarded
\* one are never selected; the selection depends on the list and the remaining
\* input only.
CandidateSelectionOrder == [][SelectionAt(StateIdxs \ {0})]_vars

\* C4 as stated: the same at every accepting state, state 0 included.
CandidateSelectionEverywhere == [][SelectionAt(StateIdxs)]_vars

\* The second guard of a chain returned true after the first returned false.
SecondGuardSelected ==
    /\ pc = "test"
    /\ Len(ctl.alts) >= 2
    /\ ctl.i = 2
    /\ ctl.rcres = "true"
    /\ ctl.dflt # <<>>

\* C5 (right contexts do not consume): from the call of a right-context function
\* to its return, whatever it reads and returns, the primary cursor, the match
\* start and end, the current state and the remembered candidate do not change.
RightCtxNonConsuming ==
    [][(pc = "rctx" \/ pc' = "rctx")
          => UNCHANGED <<iter, current_match_start, current_match_end, __state,
                         last_match>>]_vars

\* A right-context function has read past the primary cursor.
RightCtxReadAhead ==
    /\ pc = "rctx"
    /\ rc.pos > iter

\* C6 (semantic-action protocol): a semantic action is called and returns with no
\* remembered candidate; on Continue the lexer goes back to the start state of the
\* active rule-set and the request goes on without a result; on Return(token) it
\* goes back to the start state, the request returns the token with the span
\* [match_start, match_end) left by the action, and match_start becomes match_end.
SemanticActionProtocol ==
    [][/\ pc' \in {"call", "ret"} => ~last_match'.some
       /\ (pc = "ret" /\ ret = "Continue")
             => /\ pc' = "loop"
                /\ result' = NoResult
                /\ dispatch(__state') = Dfa.rule_states[hist.rule]
       /\ (pc = "ret" /\ ret = "Ok")
             => /\ pc' = "idle"
                /\ result' = Token(current_match_start, fn, current_match_end)
                /\ dispatch(__state') = Dfa.rule_states[hist.rule]
                /\ current_match_start' = current_match_end
                /\ current_match_end' = current_match_end]_vars

\* A token with a non-empty span was returned in a rule-set other than the default.
TokenReturnedAfterSwitch ==
    /\ pc = "idle"
    /\ result.k = "Token"
    /\ result.start # result.end
    /\ hist.rule > 1
    /\ current_match_start = result.end

\* No transition for the next character, or end-of-input that the state (other
\* than state 0) does not declare.
FailureToExtend ==
    /\ pc = "read"
    /\ IF iter < Len(input)
       THEN table_lookup(St(cur), input[iter + 1]).t.k = "None"
       ELSE cur # 0 /\ St(cur).end_of_input_transition.k = "None"

\* A step on which a failure to extend ends in fail(); without a remembered candidate the request
\* then returns InvalidToken at the given location and no semantic action is called;
\* with a remembered candidate it goes on to the call of its semantic action.
InvalidTokenOnFailure(at_end) ==
    /\ FailureToExtend => pc' = "fail"
    /\ (pc = "fail" /\ ~last_match.some)
          => /\ pc' = "idle"
             /\ result' = Error("InvalidToken",
                                IF at_end THEN current_match_end
                                ELSE current_match_start)
    /\ (pc = "fail" /\ last_match.some)
          => /\ pc' = "call"
             /\ result' = result

\* C7 (InvalidToken on failure), with the location the code reports: on failure to
\* extend with no remembered candidate the request fails with InvalidToken at the
\* start of the current match and no semantic action is called; with a remembered
\* candidate it never fails with InvalidToken.
InvalidTokenAtMatchStart == [][InvalidTokenOnFailure(FALSE)]_vars

\* C7 as stated: the InvalidToken error is at the current position, the position
\* reached when the failure happened.
InvalidTokenAtCurrentPosition == [][InvalidTokenOnFailure(TRUE)]_vars

\* An InvalidToken was returned whose location is not the position reached.
InvalidTokenBehindCursor ==
    /\ pc = "idle"
    /\ result.k = "InvalidToken"
    /\ result.start # current_match_end

\* C8 (location of InvalidToken), as the code has it: the error carries the start
\* of the current match, which is the position where the scan of the failed attempt
\* began when that scan began in the arm of state 0; the request returns the error
\* as its one result.
InvalidTokenLocation ==
    [][(pc = "fail" /\ ~last_match.some)
          => /\ pc' = "idle"
             /\ result'.k = "InvalidToken"
             /\ result'.start = current_match_start
             /\ hist.scan_state = 0 => result'.start = hist.scan_loc]_vars

\* C8 as stated: the error carries the position where the scan of the failed
\* attempt began, in every rule-set.
InvalidTokenAtScanStart ==
    [][(pc = "fail" /\ ~last_match.some)
          => /\ pc' = "idle"
             /\ result'.k = "InvalidToken"
             /\ result'.start = hist.scan_loc]_vars

\* A failure without remembered candidate in a rule-set other than the default,
\* where the match began before the scan of the failed attempt.
FailedAfterContinue ==
    /\ pc = "fail"
    /\ ~last_match.some
    /\ hist.rule > 1
    /\ ~hist.erred
    /\ hist.scan_loc # current_match_start

\* C9 (Custom error): when a fallible semantic action returns an error, the request
\* returns a Custom error located at the start of the match the action was called
\* on.  (The user's error value is not part of the model.)
CustomErrorAtMatchStart ==
    [][(pc = "ret" /\ ret = "Err")
          => /\ pc' = "idle"
             /\ result'.k = "Custom"
             /\ result'.start = hist.inv_start]_vars

\* What the code does instead: the Custom error is located at the end of the match
\* (match_loc is read after reset_match).
CustomErrorAtMatchEnd ==
    [][(pc = "ret" /\ ret = "Err")
          => /\ pc' = "idle"
             /\ result'.k = "Custom"
             /\ result'.start = current_match_end]_vars

\* A Custom error was returned for a non-empty match.
CustomErrorReturned ==
    /\ pc = "idle"
    /\ result.k = "Custom"
    /\ hist.inv_start # hist.inv_end

\* A request has returned an error.
ErrorReturned == pc = "idle" /\ result.k \in {"InvalidToken", "Custom"}

\* C10 (errors do not wedge the lexer): after a request returned InvalidToken or
\* Custom, repeated requests reach end-of-input.
ErrorsDoNotWedge == ErrorReturned ~> (pc = "idle" /\ result.k = "EndOfInput")

\* C10, the part that holds: an InvalidToken raised before end-of-input was read
\* leaves the cursor past the position it had when the request was made.
InvalidTokenAdvances ==
    (pc = "idle" /\ result.k = "InvalidToken" /\ ~__done) => iter > hist.req_iter

\* An error was returned in a rule-set whose start state is accepting.
ErrorBeforeZeroWidthLoop ==
    /\ ErrorReturned
    /\ hist.rule > 1
    /\ St(Dfa.rule_states[hist.rule]).accepting # <<>>
    /\ iter >= Len(input)

\* End-of-input is read in a state that does not handle it: the state has no
\* end-of-input transition, or the transition is an accept-now list none of whose
\* candidates is selected.
UnhandledEndOfInput ==
    \/ /\ pc = "read"
       /\ iter >= Len(input)
       /\ St(cur).end_of_input_transition.k = "None"
    \/ /\ pc = "test"
       /\ ctl.site = "eoi"
       /\ ctl.i > Len(ctl.alts)
       /\ ctl.dflt = <<>>

\* C11 (end-of-input only from state 0): unhandled end-of-input in state 0 ends the
\* request with the end-of-input signal; in any other state, spliced or not, the start
\* state of a non-default rule-set included, it is a failure to extend, which goes
\* back to the remembered candidate or returns InvalidToken; the end-of-input signal
\* is given by nothing else than state 0 and the head of the loop once the
\* end-of-input has been handled.
EndOfInputOnlyFromStateZero ==
    [][/\ UnhandledEndOfInput
             => IF cur = 0 THEN pc' = "idle" /\ result' = EndOfInput
                ELSE pc' = "fail" /\ result' = result /\ __done'
       /\ pc = "fail"
             => \/ pc' = "call" /\ last_match.some /\ ~__done'
                \/ pc' = "idle" /\ result'.k = "InvalidToken"
       /\ (result' = EndOfInput /\ result # EndOfInput)
             => \/ UnhandledEndOfInput /\ cur = 0
                \/ pc = "loop" /\ __done]_vars

\* End-of-input was read in the start state of a non-default rule-set, with no
\* candidate remembered.
EndOfInputInRuleSetStart ==
    /\ pc = "fail"
    /\ __done
    /\ hist.rule > 1
    /\ cur = Dfa.rule_states[hist.rule]
    /\ ~last_match.some

\* C12 (termination): every next-token request returns.
EveryRequestReturns == (pc # "idle") ~> (pc = "idle")

\* C12, the scenario: with the rule ' ' => continue in the default rule-set, the
\* requests on an input of three spaces return end-of-input and nothing else.
ThreeSpacesEndOfInput ==
    (cfg = 2 /\ input = <<32, 32, 32>> /\ pc = "idle" /\ result # NoResult)
        => (result = EndOfInput /\ iter = 3)

\* A semantic action returns Continue on a match that consumed nothing, and the
\* scan goes on in the state and at the position where the last one began.
ZeroWidthContinue ==
    /\ pc = "ret"
    /\ ret = "Continue"
    /\ hist.via = "backtrack"
    /\ iter = hist.scan_iter
    /\ dispatch(__initial_state) = hist.scan_state
    /\ St(hist.scan_state).accepting # <<>>

\* C13 (rule-set switch): a switch to rule-set R stores R's start state as the state
\* to run and as the state to reset to; every reset after an action (Continue,
\* Return, after a backtrack or not) goes to the start state of the rule-set last
\* switched to and leaves the reset state alone; the scan that follows an action
\* starts in that start state; a token returned by the action that switched has
\* the span of the match the action was called on.
RuleSetSwitch ==
    [][/\ (pc = "call" /\ pc' = "ret" /\ hist'.sw # 0)
             => /\ dispatch(__state') = Dfa.rule_states[hist'.sw]
                /\ __initial_state' = __state'
       /\ pc = "ret"
             => /\ dispatch(__state') = Dfa.rule_states[hist.rule]
                /\ __initial_state' = __initial_state
       /\ (pc = "loop" /\ ~__done /\ iter = hist.scan_iter /\ ~hist.stale)
             => cur' = Dfa.rule_states[hist.rule]
       /\ (pc = "ret" /\ ret = "Ok" /\ hist.sw # 0 /\ ~hist.rm)
             => result' = Token(hist.inv_start, fn, hist.inv_end)]_vars

\* After a token was returned, a scan starts in the start state of a rule-set other
\* than the default, with input left.
ScanStartsInSwitchedRuleSet ==
    /\ pc = "state"
    /\ hist.rule > 1
    /\ cur = Dfa.rule_states[hist.rule]
    /\ ~hist.stale
    /\ iter = hist.scan_iter
    /\ iter < Len(input)
    /\ current_match_start = current_match_end

\* The number of bytes of the UTF-8 encoding of a code point.
EncodedLength(c) == Min({n \in 1 .. 4 : c < <<128, 2048, 65536, 1114112>>[n]})

\* The display width of a character in columns: undefined for a control character,
\* 0 for a combining mark, 2 for a wide character, 1 otherwise (ambiguous included).
WidthUndefined == 0 - 1
DisplayWidth(c) ==
    IF c < 32 \/ (c >= 127 /\ c < 160) THEN WidthUndefined
    ELSE IF c = 769 THEN 0
    ELSE IF c = 20013 THEN 2
    ELSE 1

\* A step of Lexer::next that moves the position as the claim says, a character of
\* width 0 advancing the column by zero_width.
PositionStep(zero_width) ==
    /\ (obs'.op = "next" /\ obs'.out[1] # NoChar)
          => /\ obs'.out[1] = input[iter + 1]
             /\ current_match_end'.byte_idx =
                   current_match_end.byte_idx + EncodedLength(obs'.out[1])
             /\ current_match_end'.line =
                   current_match_end.line + (IF obs'.out[1] = 10 THEN 1 ELSE 0)
             /\ current_match_end'.col =
                   IF obs'.out[1] = 10 THEN 0
                   ELSE IF obs'.out[1] = 9 THEN current_match_end.col + 4
                   ELSE IF DisplayWidth(obs'.out[1]) = WidthUndefined
                   THEN current_match_end.col + 1
                   ELSE IF DisplayWidth(obs'.out[1]) = 0
                   THEN current_match_end.col + zero_width
                   ELSE current_match_end.col + DisplayWidth(obs'.out[1])
    /\ (obs'.op = "next" /\ obs'.out[1] = NoChar)
          => /\ iter >= Len(input)
             /\ UNCHANGED <<iter, current_match_end>>

\* C14 (position arithmetic), as the code has it: consuming a character advances
\* the byte offset by its encoded length; a newline increments the line and sets the
\* column to 0; a tab advances the column by 4; any other character advances the
\* column by its display width, which is 0 for a character of zero width, with 1
\* used for the characters whose width is undefined (control characters);
\* end-of-input leaves the position unchanged.
PositionArithmetic == [][PositionStep(0)]_vars

\* C14 as stated: 1 is used for the characters of zero width as well.
PositionArithmeticZeroWidthAsOne == [][PositionStep(1)]_vars

\* A character of zero width was consumed after a wide one on the second line.
ZeroWidthConsumed ==
    /\ obs.op = "next"
    /\ obs.out[1] = 769
    /\ current_match_end.line = 1
    /\ current_match_end.col = 2

\* C15 (observers): a call of peek, match_ or match_loc from a semantic action, any
\* number of times, changes neither the cursor, nor the match start and end, the
\* current state, the state to reset to, the done flag or the remembered candidate;
\* the character consumed next is the one peek returned, end-of-input when it
\* returned None.
ObserversDoNotDisturb ==
    [][/\ (pc = "call" /\ pc' = "call" /\ ref' = ref)
             => /\ obs'.op \in {"peek", "match_", "match_loc"}
                /\ UNCHANGED <<iter, current_match_start, current_match_end, __state,
                               __initial_state, __done, last_match>>
       /\ (pc = "read" /\ obs.op = "peek")
             => IF obs.out[1] = NoChar THEN iter >= Len(input) /\ iter' = iter
                ELSE iter < Len(input) /\ input[iter + 1] = obs.out[1] /\ iter' = iter + 1
       /\ (pc' = "ret" /\ obs.op = "match_")
             => ByteLen(obs.out) =
                   current_match_end.byte_idx - current_match_start.byte_idx]_vars

\* The character peek returned from a semantic action is about to be consumed, two
\* characters into the input.
PeekedThenConsumed ==
    /\ pc = "read"
    /\ obs.op = "peek"
    /\ obs.out[1] # NoChar
    /\ iter >= 2

\* The ranges of a table are ordered by start and pairwise disjoint.
SortedDisjoint(table) ==
    /\ \A i \in DOMAIN table : table[i].start <= table[i].end
    /\ \A i \in 1 .. (Len(table) - 1) : table[i].end < table[i + 1].start

\* The OR-combined inclusive-range test over the ranges of a table.
OrCombined(c, table) ==
    \E i \in DOMAIN table : table[i].start <= c /\ c <= table[i].end

\* The emitted arm a guard evaluation was made on.
ArmOf(arms, g) == {arm \in arms : arm.out = g.out /\ arm.next = g.next}

\* C16 (search-table equivalence): on a table of more than 9 ranges, ordered by
\* start and pairwise disjoint, the emitted binary_search returns true for a
\* character (every range boundary and its neighbours among them) exactly when
\* the OR-combined inclusive-range test over the same ranges does.
SearchTableEquivalence ==
    [][(obs'.op = "guard" /\ obs'.arg[1].kind = "binary_search")
          => \A arm \in ArmOf(obs.out, obs'.arg[1]) :
                /\ Len(arm.ranges) > 9
                /\ SortedDisjoint(arm.ranges)
                /\ obs'.arg[1].holds = OrCombined(obs'.arg[1].c, arm.ranges)]_vars

\* The binary search found the last character of the enumerated alphabet in a table.
BinarySearchFound ==
    /\ obs.op = "guard"
    /\ obs.arg[1].kind = "binary_search"
    /\ obs.arg[1].c = MaxChar
    /\ obs.arg[1].holds

\* The ranges of a range map that lead to the destination of an emitted arm.
RangesOfArm(rs, arm) ==
    {i \in DOMAIN rs : IF arm.out = "true" THEN rs[i].value = 2 ELSE rs[i].value = arm.next}

GoesTo(n) ==
    \/ pc' = "state" /\ cur' = n
    \/ pc' = "loop" /\ dispatch(__state') = n

\* The step does what transition t says: go to a state, evaluate the candidate
\* list of an accept-now transition, fail when there is none.
Follows(t, site) ==
    IF t.k = "Trans" THEN GoesTo(t.to)
    ELSE IF t.k = "Accept"
    THEN pc' = "test" /\ ctl'.cands = t.acc /\ ctl'.site = site /\ cur' = cur
    ELSE pc' = "fail"

\* Dispatch on a character read in a state: the exact-character transition if
\* there is one, otherwise the range transition containing the character,
\* otherwise the wildcard transition, otherwise failure.
DispatchOnChar ==
    (pc = "read" /\ iter < Len(input))
        => Follows(table_lookup(St(cur), input[iter + 1]).t,
                   table_lookup(St(cur), input[iter + 1]).site)

\* No candidate of the accept-now list of an exact-character or range transition
\* was selected, and the step leaves the list.
NothingSelected ==
    /\ pc = "test"
    /\ ctl.site = "char"
    /\ ctl.i > Len(ctl.alts)
    /\ ctl.dflt = <<>>

\* C17 (transition precedence), as the code has it: the dispatch follows the
\* exact-character transition if one exists, otherwise the range transition
\* containing the character, otherwise the wildcard transition, otherwise fails; a
\* character with an exact-character or range transition takes the wildcard
\* transition only when that transition is an accept-now list none of whose
\* candidates is selected, and fails then when the state has no wildcard.
TransitionPrecedence ==
    [][/\ DispatchOnChar
       /\ (pc = "test" /\ ctl.site = "char" /\ ~NothingSelected)
             => pc' \in {"test", "rctx", "call"}
       /\ NothingSelected => Follows(St(cur).any_transition, "any")]_vars

\* The claim as stated: a character that has an exact-character or range
\* transition never takes the wildcard transition of the state, also when the
\* transition is an accept-now list.
TransitionPrecedenceNeverWildcard ==
    [][/\ DispatchOnChar
       /\ (pc = "test" /\ ctl.site = "char" /\ St(cur).any_transition.k # "None")
             => ~Follows(St(cur).any_transition, "any")]_vars

\* The character read has an exact-character transition to an accept-now list, a
\* range transition and the state a wildcard, and the guard of the only candidate
\* of the list has returned false.
GuardedExactCharRejected ==
    /\ NothingSelected
    /\ St(cur).any_transition.k # "None"
    /\ iter >= 1
    /\ \E i \in DOMAIN St(cur).char_transitions :
          /\ St(cur).char_transitions[i].ch = input[iter]
          /\ St(cur).char_transitions[i].next.k = "Accept"
    /\ \E i \in DOMAIN St(cur).range_transitions :
          /\ St(cur).range_transitions[i].start <= input[iter]
          /\ input[iter] <= St(cur).range_transitions[i].end

\* The lexer of the identifier and whitespace rules on "ab 12cd": what the request
\* made with the cursor at 0 and the one made with the cursor at 2 return.
IdentifierScenario ==
    (Configs[cfg] = CfgIdent /\ input = AbSpace12cd /\ pc = "idle" /\ result # NoResult)
        => /\ hist.req_iter = 0 => result = Token(Loc(0, 0, 0), 0, Loc(0, 2, 2))
           /\ hist.req_iter = 2 => result = Error("InvalidToken", Loc(0, 3, 3))
           /\ hist.req_iter \in {0, 2} \/ hist.erred

\* C18 (scenario: skip, token, error position): with the identifier rule, a
\* whitespace rule that continues and no rule for digits in the default rule-set,
\* "ab 12cd" yields the token Identifier with byte span [0,2), then InvalidToken at
\* line 0, column 3, byte 3; and the token or error that follows a Continue in the
\* default rule-set is reported at a position not before the end of the skipped text.
SkippedTextExcluded ==
    [][/\ IdentifierScenario'
       /\ (hist.skipped /\ hist.scan_state = 0 /\ pc' = "idle"
            /\ result'.k \in {"Token", "InvalidToken", "Custom"})
             => /\ result'.start.byte_idx >= hist.scan_loc.byte_idx
                /\ result'.start.col >= hist.scan_loc.col
                     \/ result'.start.line > hist.scan_loc.line]_vars

\* The second request on "ab 12cd" has returned its error after the space was
\* skipped.
ErrorAfterSkippedSpace ==
    /\ Configs[cfg] = CfgIdent
    /\ input = AbSpace12cd
    /\ pc = "idle"
    /\ hist.req_iter = 2
    /\ iter = 4
    /\ result = Error("InvalidToken", Loc(0, 3, 3))

\* The states that have their own arm in `match self.0.__state`.
StatesWithArm == {s \in StateIdxs : ~has_no_arm(s)}

\* The step goes to state n without a label of its own: n has no arm and its code
\* runs in place, __state left alone.
SplicedInline(n) == has_no_arm(n) /\ pc' = "state" /\ cur' = n /\ __state' = __state

\* The step stores the index of state n, which has its own arm, the arm that runs
\* for that index.
StoresLabel(n) ==
    /\ n \in StatesWithArm
    /\ __state' = renumber_state(n)
    /\ dispatch(__state') = n

\* The step takes the go-to-state transition t, if it is one.
GoToState(t) ==
    t.k = "Trans" => \/ SplicedInline(t.to)
                     \/ StoresLabel(t.to) /\ pc' = "loop"
                     \/ t.to \in StatesWithArm /\ pc' = "state" /\ cur' = t.to
                          /\ __state' = __state

\* C19 (dispatch-label integrity): a state with exactly one predecessor that is not
\* initial has no dispatch arm and is spliced inline at its caller; every value
\* stored in __state, by a character, range, wildcard or end-of-input go-to-state
\* transition, by a rule-set switch or by the reset to the active start state, is
\* the dense index of a state with its own arm; the indices are contiguous from 0
\* in the original order; the `_` arm is reached only with the last index.
DispatchLabelIntegrity ==
    [][/\ (pc = "read" /\ iter < Len(input))
             => GoToState(table_lookup(St(cur), input[iter + 1]).t)
       /\ (pc = "read" /\ iter >= Len(input))
             => GoToState(St(cur).end_of_input_transition)
       /\ NothingSelected => GoToState(St(cur).any_transition)
       /\ (pc = "call" /\ pc' = "ret" /\ hist'.sw # 0)
             => StoresLabel(Dfa.rule_states[hist'.sw])
       /\ pc = "ret" => __state' = __initial_state
       /\ __state' # __state => \E n \in StatesWithArm : StoresLabel(n)
       /\ {renumber_state(n) : n \in StatesWithArm}
             = 0 .. (NStates - n_inlined_states - 1)
       /\ \A m, n \in StatesWithArm : m < n => renumber_state(m) < renumber_state(n)
       /\ (pc = "loop" /\ pc' = "state")
             => cur' \in StatesWithArm /\ renumber_state(cur') = __state]_vars

\* End-of-input was read in a state whose end-of-input transition leads to a state
\* with exactly one predecessor.
EndOfInputIntoInlinedState ==
    /\ pc = "loop"
    /\ __done
    /\ iter = Len(input)
    /\ St(cur).end_of_input_transition.k = "Trans"
    /\ has_no_arm(St(cur).end_of_input_transition.to)
    /\ __state = renumber_state(St(cur).end_of_input_transition.to)

\* All candidates of the list under evaluation are guarded and every guard has
\* returned false.
NoneSelected ==
    /\ pc = "test"
    /\ ctl.i > Len(ctl.alts)
    /\ ctl.dflt = <<>>

\* C21 (no candidate selected): when an accepting state or an accept-now
\* transition has only guarded candidates and none of the predicates holds, the
\* accept step is skipped: no semantic action is invoked for it, the remembered
\* candidate is left as it was, and scanning continues as if the point were not
\* accepting (the next character is read in an accepting state; the wildcard is
\* taken or the scan fails after an accept-now transition on a character; the
\* unhandled end-of-input action runs after one on end-of-input).
NoCandidateSelected ==
    [][NoneSelected
         => /\ last_match' = last_match
            /\ pc' # "call"
            /\ fn' = fn
            /\ iter' = iter
            /\ current_match_start' = current_match_start
            /\ current_match_end' = current_match_end
            /\ IF ctl.site = "state"
               THEN pc' = "read" /\ cur' = cur /\ __state' = __state
               ELSE IF ctl.site = "char" THEN Follows(St(cur).any_transition, "any")
               ELSE IF ctl.site = "any" THEN pc' = "fail"
               ELSE IF cur = 0 THEN pc' = "idle" /\ result' = EndOfInput
               ELSE pc' = "fail"]_vars

\* The guard of the only candidate of an accepting state has returned false while
\* a candidate recorded one character earlier is remembered.
GuardedStateSkipped ==
    /\ NoneSelected
    /\ ctl.site = "state"
    /\ last_match.some
    /\ last_match.end.byte_idx < current_match_end.byte_idx

\* C22 (right-context predicate result): the generated predicate of every
\* right-context automaton, called on any remaining input, returns true exactly
\* when the automaton run from its state 0 over that input reaches an accepting
\* state and false otherwise, and reads no further than the end of the input.
RightCtxPredicateResult ==
    /\ rc # NoRc => rc.pos <= Len(input)
    /\ (obs.op = "right_ctx" /\ obs.out # <<>>)
          => obs.out = <<IF RcAccepts(obs.arg[1], 0, obs.arg[2], Len(RcDfa(obs.arg[1])))
                         THEN "true" ELSE "false">>

\* The predicate of a right context whose function compiles has returned true
\* after reading two characters.
RightCtxFnReturnedTrue ==
    /\ obs.op = "right_ctx"
    /\ obs.out = <<"true">>
    /\ obs.arg[2] + 2 <= Len(input)
    /\ ~RcAccepting(obs.arg[1], table_lookup(RcSt(obs.arg[1], 0), input[obs.arg[2] + 1]).t)

\* A new match attempt begins: a request is made while the input is not exhausted,
\* or a semantic action has returned Continue.
AttemptBegins ==
    \/ Request /\ ~__done
    \/ Return /\ ret = "Continue"

\* C23 (no stale candidate): whenever a new match attempt begins (the first
\* request, a request after a token or an error, the loop after Continue) no
\* candidate is remembered, and a backtrack returns to a candidate that was
\* recorded in the current attempt: its end is not before the position where the
\* attempt began and its start is the current match start.
NoStaleCandidate ==
    [][/\ AttemptBegins => last_match' = None
       /\ (pc = "fail" /\ last_match.some)
            => /\ last_match.end.byte_idx >= hist.scan_loc.byte_idx
               /\ last_match.start = current_match_start]_vars

\* An attempt begins after a Continue, at the position where the action was
\* invoked, three bytes or more into the input, and no candidate is remembered.
AttemptAfterClearedCandidate ==
    /\ pc = "loop"
    /\ hist.skipped
    /\ iter = hist.scan_iter
    /\ hist.inv_end.byte_idx = current_match_end.byte_idx
    /\ hist.inv_end.byte_idx >= 3
    /\ last_match = None

\* End-of-input was read while a candidate is remembered: fail() is about to
\* backtrack.
EndOfInputWithCandidate == pc = "fail" /\ __done /\ last_match.some

\* C24 (end-of-input is not latched across a backtrack): when end-of-input was
\* read while a candidate is remembered, the engine puts the cursor and the match
\* end back to the candidate's end, clears the done flag and calls the candidate's
\* action; the done flag is set only while the cursor is at the end of the input,
\* so end-of-input is reported only after all input behind the candidate was read.
EndOfInputNotLatched ==
    /\ [](__done => iter = Len(input))
    /\ []((pc = "idle" /\ result = EndOfInput) => (__done /\ iter = Len(input)))
    /\ [][EndOfInputWithCandidate
            => /\ ~__done'
               /\ pc' = "call"
               /\ fn' = last_match.fn
               /\ iter' = chars_from(input, last_match.end.byte_idx)
               /\ current_match_end' = last_match.end
               /\ current_match_start' = last_match.start
               /\ last_match' = None]_vars

\* End-of-input was read behind the end of the remembered candidate, which is not
\* empty.
EndOfInputBehindCandidate ==
    /\ EndOfInputWithCandidate
    /\ iter = Len(input)
    /\ chars_from(input, last_match.end.byte_idx) < iter
    /\ last_match.start.byte_idx < last_match.end.byte_idx

\* End-of-input is about to be read in a state whose end-of-input transition goes
\* to another state.
EndOfInputGoTo ==
    /\ pc = "read"
    /\ iter >= Len(input)
    /\ St(cur).end_of_input_transition.k = "Trans"

\* C25 (an end-of-input transition 'go to state S' is followed): when end-of-input
\* is read in a state whose end-of-input transition goes to S, the code of S is
\* the next to run (spliced in place, or through the dispatch loop), and the token
\* stream does not end with such a state as the last one whose code ran, so that
\* the candidates of S are recorded or invoked first.
EndOfInputTransitionFollowed ==
    /\ [][EndOfInputGoTo
            => \/ pc' = "state" /\ cur' = St(cur).end_of_input_transition.to
               \/ /\ pc' = "loop"
                  /\ dispatch(__state') = St(cur).end_of_input_transition.to]_vars
    /\ [](~(/\ pc = "idle"
            /\ result = EndOfInput
            /\ St(cur).end_of_input_transition.k = "Trans"))

\* The token stream has ended right after the end-of-input transition into a state
\* that has an arm of its own and an unguarded candidate.
EndOfInputBeforeTarget ==
    /\ pc = "idle"
    /\ result = EndOfInput
    /\ St(cur).end_of_input_transition.k = "Trans"
    /\ ~has_no_arm(St(cur).end_of_input_transition.to)
    /\ dispatch(__state) = St(cur).end_of_input_transition.to
    /\ St(dispatch(__state)).accepting # <<>>
    /\ last_match = None

\* The last request returned the end-of-input signal.
EndOfInputReturned == pc = "idle" /\ result = EndOfInput

\* The fields of the lexer that hold the cursor, the positions, the candidate and
\* the dispatch labels are left as they are, and no semantic action is entered.
LexerUntouched ==
    /\ UNCHANGED <<iter, current_match_start, current_match_end, last_match, __state,
                   __initial_state, __done, fn, ret>>
    /\ pc' \notin {"call", "ret", "read", "state"}

\* C26 (end-of-input is final): once a request has returned the end-of-input
\* signal the done flag is set; from then on a request goes to the head of the
\* loop and from there straight back to the caller with end-of-input again,
\* without reading input, entering a state or a semantic action, or changing a
\* position.
EndOfInputFinal ==
    /\ [](EndOfInputReturned => __done)
    /\ [][EndOfInputReturned => (LexerUntouched /\ pc' \in {"idle", "loop"})]_vars
    /\ [][(pc = "loop" /\ __done) => (LexerUntouched /\ EndOfInputReturned')]_vars

\* End-of-input is returned by a request made after state 0 had read the end of
\* a non-empty input and the table-walking lexer had reported it.
EndOfInputReturnedAgain ==
    /\ EndOfInputReturned
    /\ Len(input) > 0
    /\ cur = 0
    /\ St(0).end_of_input_transition.k = "None"
    /\ ref.ev = "run"
    /\ ref.r.done
    /\ hist.req_iter = Len(input)

\* A byte offset that lies on a character boundary of the input.
OnCharBoundary(b) == \E k \in 0 .. Len(input) : ByteLen(SubSeq(input, 1, k)) = b

\* C27 (position/cursor invariant): in every reachable state the match start is
\* not behind the match end and the match end is within the input, both byte
\* offsets lie on character boundaries, a remembered candidate is ordered the same
\* way and does not end behind the current match end, and the cursor yields the
\* input from the byte offset of the match end on; the match end moves backwards
\* only in a backtrack, to the end of the remembered candidate.
PositionCursorInvariant ==
    /\ [](/\ current_match_start.byte_idx <= current_match_end.byte_idx
          /\ current_match_end.byte_idx <= ByteLen(input)
          /\ OnCharBoundary(current_match_start.byte_idx)
          /\ OnCharBoundary(current_match_end.byte_idx)
          /\ iter <= Len(input)
          /\ ByteLen(SubSeq(input, 1, iter)) = current_match_end.byte_idx
          /\ last_match.some
               => /\ last_match.start.byte_idx <= last_match.end.byte_idx
                  /\ last_match.end.byte_idx <= current_match_end.byte_idx
                  /\ OnCharBoundary(last_match.start.byte_idx)
                  /\ OnCharBoundary(last_match.end.byte_idx))
    /\ [][current_match_end'.byte_idx < current_match_end.byte_idx
            => /\ pc = "fail"
               /\ last_match.some
               /\ current_match_end' = last_match.end]_vars

\* A backtrack has put the match end back over a character of two bytes, behind a
\* match that is not empty.
BacktrackedInsideInput ==
    /\ pc = "call"
    /\ hist.via = "backtrack"
    /\ current_match_start.byte_idx < current_match_end.byte_idx
    /\ iter < Len(input)
    /\ len_utf8(input[iter + 1]) = 2

\* C28 (token spans are ordered): every returned token starts at or after the end
\* of the token returned before it (the start of the input for the first one) and
\* ends at or after its own start, whatever Continues, backtracks and rule-set
\* switches happened in between.
TokenSpansOrdered ==
    (pc = "idle" /\ result.k = "Token")
        => /\ result.start.byte_idx >= hist.tok_prev.byte_idx
           /\ result.end.byte_idx >= result.start.byte_idx
           /\ result.end = hist.tok_end

\* A token that is not empty was returned behind an earlier one, with text between
\* the two.
SecondTokenAfterGap ==
    /\ pc = "idle"
    /\ result.k = "Token"
    /\ hist.tok_prev.byte_idx > 0
    /\ result.start.byte_idx > hist.tok_prev.byte_idx
    /\ result.end.byte_idx > result.start.byte_idx

\* C29 (match accumulation differs by rule-set): every dispatch of state 0 resets
\* the match start to the current end, so a token returned after a Continue of
\* the default rule-set does not start before the end of the skipped text; a
\* Continue itself keeps the match start, and the match start changes only when
\* state 0 is dispatched, when an action calls reset_match or when a token or an
\* error is returned, so in any other rule-set the span of the token returned
\* after a Continue reaches back over the text the Continue consumed.
MatchAccumulation ==
    [][/\ (pc = "state" /\ cur = 0) => current_match_start' = current_match_end
       /\ (pc = "ret" /\ ret = "Continue") => current_match_start' = current_match_start
       /\ current_match_start' # current_match_start
            => \/ pc = "state" /\ cur = 0
               \/ pc = "call" /\ hist'.rm
               \/ pc = "ret" /\ ret # "Continue"
       /\ (pc = "ret" /\ ret = "Ok" /\ hist.skipped /\ hist.scan_state = 0)
            => /\ result'.k = "Token"
               /\ result'.start.byte_idx >= hist.scan_loc.byte_idx
       /\ (pc = "ret" /\ ret = "Ok" /\ hist.skipped /\ hist.scan_state # 0 /\ ~hist.rm)
            => /\ result'.k = "Token"
               /\ result'.start = current_match_start
               /\ result'.start.byte_idx <= hist.scan_loc.byte_idx
               /\ result'.end.byte_idx >= hist.scan_loc.byte_idx]_vars

\* In rule-set String the action of the closing '"', a rule of one character, has
\* returned a token of three bytes: the opening '"' and the character in between,
\* both consumed by Continues, are part of its span.
TokenAcrossContinues ==
    /\ Configs[cfg] = CfgRuleSets
    /\ pc = "idle"
    /\ result.k = "Token"
    /\ result.tok = 2
    /\ result.start.byte_idx = 0
    /\ result.end.byte_idx = 3
    /\ hist.scan_state = 2

\* C30 (code generation terminates): for every automaton whose states are all
\* reachable from a start state, start states with a self-loop or on a cycle
\* included, the nested calls of generate_state_arm never hold the same state
\* twice: no state is spliced into its own code.
CodeGenerationTerminates ==
    \A i, j \in DOMAIN obs.out : obs.out[i].state = obs.out[j].state => i = j

\* The generator is splicing the code of a start state into the code of that
\* same start state.
StartStateSplicedIntoItself ==
    /\ Len(obs.out) >= 2
    /\ St(obs.out[1].state).initial
    /\ obs.out[Len(obs.out)].state = obs.out[1].state

====
